---- MODULE Spec2Model ----
(***************************************************************************)
(* Media session reconciliation: the request manager                       *)
(* (request-manager.ts), the state manager / causality tracker             *)
(* (use-media-state-manager.ts) and the request queue they share, driven   *)
(* by request events, provider events, promise settlements and timers.     *)
(*                                                                         *)
(* Times are in hundredths of a second and volumes in hundredths, so that  *)
(* 0.25 is 25 and a duration of 10s is 1000.                               *)
(***************************************************************************)
EXTENDS Integers, Sequences, FiniteSets, TLC

\* ---------------------------------------------------------------- bounds

\* Stimuli from outside in one behaviour: request events that reach a handler and calls
\* of the play/pause operations (each gets a fresh id), and signals a provider or the
\* ad controller sends on its own account (not owed as the answer to a call).
MaxStimuli == 2
\* One-tick tracking resets (setTimeout 0) pending at once.
MaxDeferred == 1
\* Animation-frame callbacks (loop requests) pending at once.
MaxFrames == 1

\* ------------------------------------------------------ program constants

\* request-manager.ts:111, the volume forced on unmute when volume is 0 (0.25).
UnmuteVolume == 25
\* request-manager.ts:149, the end tolerance of a seek (0.25s).
SeekEndTolerance == 25

Categories == {"load", "play", "pause", "volume", "fullscreen", "seeking", "seeked", "userIdle"}

Volumes == {0, UnmuteVolume, 100}
\* The times provider events report, and the times seek requests ask for.
Times == {0, 1000}
SeekTimes == {900, 990}
Durations == {1000}
Errors == {"NotAllowedError", "AbortError"}
Targets == {"prefer-media", "media", "provider"}

NotReady == "NotReadyError"
FullscreenUnsupported == "FullscreenUnsupportedError"

\* The event types whose listener the state manager wraps in trackEvent.
TrackedTypes == {"can-load", "source-change", "load-start", "can-play", "autoplay-fail",
                 "pause", "play", "play-fail", "playing", "seeking", "seeked"}

VARIABLES
    media,      \* $media / $store: the MediaState record
    queue,      \* requests._queue: the pending records, a set of <<category, request event>>
    isSeeking,  \* requests._$isSeeking
    isLooping,  \* requests._$isLooping
    isReplay,   \* requests._$isReplay
    provider,   \* the provider: whether one is attached, and the events it still owes
    sm,         \* the state manager's local variables
    pending,    \* promises in flight (provider and adapter calls awaited by a handler)
    fs,         \* the fullscreen adapters' active flags and the orientation lock
    user,       \* the idle detector: $paused, $idle, triggerEvent, whether idleTimeout
                \* is pending (and for which input) and whether the host is connected
    ads,        \* the ad controller: _playingNonLinear, _previousPlaybackPosition,
                \* _previousPlayedTimeranges, the loader, the manager, the ad-load
                \* promise and adsLoaded; and whether a linear ad is running
    controller, \* the MediaControllerElement: _mediaProvider, and which context record
                \* each provider element holds
    frames,     \* animation-frame callbacks scheduled by loop requests
    nstim,      \* stimuli from outside so far
    last        \* the last operation: its name, input, provider calls, notifications

vars == <<media, queue, isSeeking, isLooping, isReplay, provider, sm, pending, fs, user,
          ads, controller, frames, nstim, last>>

\* ------------------------------------------------------------ MediaState

\* TimeRanges objects: new TimeRange() has no range, new TimeRange(start, end) has one.
\* Null stands for the null reference, which is no TimeRanges object.
NoRanges == <<>>

TimeRange(start, end) == <<start, end>>

Null == <<-1>>

\* The played ranges a provider reports with its time updates.
PlayedRanges == {TimeRange(0, 1000)}

\* The store's defaults (store.ts is not part of the sources).
InitialMediaState ==
    [paused |-> TRUE, playing |-> FALSE, seeking |-> FALSE, waiting |-> FALSE,
     ended |-> FALSE, started |-> FALSE, canLoad |-> FALSE, canPlay |-> FALSE,
     muted |-> FALSE, volume |-> 100, currentTime |-> 0, duration |-> 0,
     seekableEnd |-> 0, fullscreen |-> FALSE, adStarted |-> FALSE, played |-> NoRanges]

\* softResetMediaState: every field back to its default but the few that outlive a
\* source (volume, muted, canLoad, fullscreen).
softResetMediaState(m) ==
    [InitialMediaState EXCEPT !.volume = m.volume, !.muted = m.muted,
                              !.canLoad = m.canLoad, !.fullscreen = m.fullscreen]

\* ----------------------------------------------------------------- Queue

NoRequest == [type |-> "none", id |-> 0, detail |-> 0, target |-> ""]

Request(type, id, detail, target) ==
    [type |-> type, id |-> id, detail |-> detail, target |-> target]

\* A faulty _enqueue: the record is added and the slot's earlier record is kept.
QueueEnqueue_KeepsEarlier(q, key, item) == q \cup {<<key, item>>}

\* Queue._enqueue: store or replace the record of the category.
QueueEnqueue(q, key, item) == {p \in q : p[1] # key} \cup {<<key, item>>}

\* A faulty removal: the record stays in its slot.
QueueDelete_KeepsRecord(q, key) == q

\* Queue._delete
QueueDelete(q, key) == {p \in q : p[1] # key}

\* Queue._reset
QueueReset(q) == {}

\* The records pending under a category.
QueuePeek(q, key) == {p[2] : p \in {x \in q : x[1] = key}}

\* ------------------------------------------------- a handler's working state

\* What an operation read of its surroundings: whether the session's fullscreen adapter
\* and the provider's own fullscreen are supported, and whether the orientation can be
\* locked (the adapter supports it and a lock type is configured).
Env(mediaFs, providerFs, lockable) ==
    [mediaFs |-> mediaFs, providerFs |-> providerFs, lockable |-> lockable]

NoEnv == Env(FALSE, FALSE, FALSE)

Envs == {Env(a, b, c) : a \in BOOLEAN, b \in BOOLEAN, c \in BOOLEAN}

\* The mutable state a handler runs on, with what it has done so far: the provider and
\* adapter operations it called, the notifications that reached downstream listeners,
\* the request events it attached to an engine event, the records its enqueues
\* replaced, and stopImmediatePropagation.
Cur ==
    [media |-> media, queue |-> queue, isSeeking |-> isSeeking, isLooping |-> isLooping,
     isReplay |-> isReplay, provider |-> provider, sm |-> sm, pending |-> pending,
     fs |-> fs, user |-> user, ads |-> ads, controller |-> controller, frames |-> frames,
     calls |-> {}, emits |-> <<>>, served |-> {}, evicted |-> {}, stop |-> FALSE,
     thrown |-> "", target |-> "", env |-> NoEnv, idleChanges |-> <<>>,
     idleTriggers |-> <<>>]

Call(fn, arg) == [fn |-> fn, arg |-> arg]

Notification(type, detail) == [type |-> type, detail |-> detail]

Emit(s, type, detail) == [s EXCEPT !.emits = Append(@, Notification(type, detail))]

Invoke(s, fn, arg) == [s EXCEPT !.calls = @ \cup {Call(fn, arg)}]

Owe(s, types) == [s EXCEPT !.provider.owed = @ \cup types]

\* A promise in flight: the operation called, the request it was called for (0 for a
\* call of the play/pause operations), who awaits it, and for a fullscreen call the
\* adapter it was made on.
Promise(fn, req, origin, which) == [fn |-> fn, req |-> req, origin |-> origin, which |-> which]

NoPromise == Promise("", 0, "", "")

\* The record of the operation that has just run.
Op(s, name, req, detail) ==
    [op |-> name, req |-> req, detail |-> detail, target |-> s.target, env |-> s.env,
     promise |-> NoPromise, calls |-> s.calls, emits |-> s.emits, served |-> s.served,
     evicted |-> s.evicted, idleChanges |-> <<>>, idleTriggers |-> <<>>]

\* The record of a promise settling.
Settled(s, name, p, error) ==
    [Op(s, name, p.req, [num |-> 0, flag |-> FALSE, err |-> error, played |-> NoRanges])
        EXCEPT !.promise = p]

\* dispatchIdleChange: a user-idle-change notification with the detail isIdle and the
\* trigger event the detector holds ("" when it holds none); the effect that dispatches
\* it forgets the trigger event afterwards.
dispatchIdleChange(s, isIdle) ==
    [s EXCEPT !.idleChanges = Append(@, IF isIdle THEN "true" ELSE "false"),
              !.idleTriggers = Append(@, s.user.trigger),
              !.user.trigger = ""]

\* The effects of the idle detector, run once the operation that wrote what they read
\* has returned: the one on $media.paused pauses the tracking; between connect and
\* disconnect, the one on $paused forces idling and the one on $idle clears the timeout
\* and dispatches the change. An effect runs only when what it reads has changed.
Effects(s) ==
    LET connected == user.connected /\ s.user.connected
        a == IF s.media.paused /\ ~media.paused THEN [s EXCEPT !.user.paused = TRUE] ELSE s
        b == IF connected /\ a.user.paused /\ ~user.paused
             THEN [a EXCEPT !.user.trigger = "", !.user.idling = TRUE]
             ELSE a
    IN  IF connected /\ b.user.idling # user.idling
        THEN dispatchIdleChange([b EXCEPT !.user.timer = FALSE, !.user.timerEvent = ""],
                                b.user.idling)
        ELSE b

Commit(s, op) ==
    LET e == Effects(s)
    IN  /\ media' = e.media
        /\ queue' = e.queue
        /\ isSeeking' = e.isSeeking
        /\ isLooping' = e.isLooping
        /\ isReplay' = e.isReplay
        /\ provider' = e.provider
        /\ sm' = e.sm
        /\ pending' = e.pending
        /\ fs' = e.fs
        /\ user' = e.user
        /\ ads' = e.ads
        /\ controller' = e.controller
        /\ frames' = e.frames
        /\ last' = [op EXCEPT !.idleChanges = e.idleChanges,
                              !.idleTriggers = e.idleTriggers]

\* --------------------------------------------- state manager: tracking

\* A faulty stopWaiting: the debounce is not canceled.
stopWaiting_KeepsTimer(s) == [s EXCEPT !.media.waiting = FALSE]

\* stopWaiting: cancel the waiting debounce.
stopWaiting(s) == [s EXCEPT !.sm.waitingTimer = FALSE, !.media.waiting = FALSE]

resetTracking(s) ==
    [stopWaiting(s) EXCEPT !.isReplay = FALSE, !.isLooping = FALSE,
                           !.sm.lastWaitingEvent = FALSE, !.sm.trackedEvents = {}]

\* trackEvent: remember the event under its type before its handler runs.
trackEvent(s, type) == [s EXCEPT !.sm.trackedEvents = @ \cup {type}]

\* satisfyMediaRequest: serve the category; the pending request event is attached to
\* the engine event and the record removed.
satisfyMediaRequest(s, category) ==
    [s EXCEPT !.served = @ \cup QueuePeek(s.queue, category),
              !.queue = QueueDelete(@, category)]

\* ------------------------------------------- state manager: load tiers

attachCanLoadEventListeners(s) == [s EXCEPT !.sm.attachedCanLoadListeners = TRUE]

attachLoadStartEventListeners(s) == [s EXCEPT !.sm.attachedLoadStartListeners = TRUE]

attachCanPlayListeners(s) == [s EXCEPT !.sm.attachedCanPlayListeners = TRUE]

onCanLoad(s) ==
    satisfyMediaRequest(attachCanLoadEventListeners([s EXCEPT !.media.canLoad = TRUE]), "load")

\* A faulty onSourceChange: the first source-change resets like any other.
onSourceChange_AlwaysResets(s) ==
    LET r == resetTracking(s)
    IN  [r EXCEPT !.media = softResetMediaState(r.media),
                  !.sm.skipInitialSrcChange = FALSE,
                  !.sm.trackedEvents = {"source-change"}]

onSourceChange(s) ==
    IF s.sm.skipInitialSrcChange
    THEN [s EXCEPT !.sm.skipInitialSrcChange = FALSE]
    ELSE LET r == resetTracking(s)
         IN  [r EXCEPT !.media = softResetMediaState(r.media),
                       !.sm.trackedEvents = {"source-change"}]

onLoadStart(s) == attachLoadStartEventListeners(s)

onCanPlay(s, duration) ==
    [attachCanPlayListeners(s) EXCEPT !.media.canPlay = TRUE, !.media.duration = duration]

onDurationChange(s, duration) == [s EXCEPT !.media.duration = duration]

onAutoplayFail(s) == resetTracking(s)

\* onProgress: the end of the last seekable range.
onProgress(s, seekableEnd) == [s EXCEPT !.media.seekableEnd = seekableEnd]

\* --------------------------------------- state manager: playback events

\* A faulty onPlay: the looping flag is not consulted.
onPlay_IgnoresLooping(s) ==
    IF ~s.media.paused
    THEN [s EXCEPT !.stop = TRUE]
    ELSE LET a == satisfyMediaRequest(s, "play")
             b == [a EXCEPT !.media.paused = FALSE]
         IN  IF b.media.ended \/ b.isReplay
             THEN Emit([b EXCEPT !.isReplay = FALSE, !.media.ended = FALSE], "replay", "")
             ELSE b

\* A faulty onPlay: the replay flag is not consulted.
onPlay_ReplayOnlyAfterEnded(s) ==
    IF s.isLooping \/ ~s.media.paused
    THEN [s EXCEPT !.stop = TRUE]
    ELSE LET a == satisfyMediaRequest(s, "play")
             b == [a EXCEPT !.media.paused = FALSE]
         IN  IF b.media.ended
             THEN Emit([b EXCEPT !.isReplay = FALSE, !.media.ended = FALSE], "replay", "")
             ELSE b

\* A faulty onPlay: a play after the end does not clear ended.
onPlay_KeepsEnded(s) ==
    IF s.isLooping \/ ~s.media.paused
    THEN [s EXCEPT !.stop = TRUE]
    ELSE LET a == satisfyMediaRequest(s, "play")
             b == [a EXCEPT !.media.paused = FALSE]
         IN  IF b.media.ended \/ b.isReplay
             THEN Emit([b EXCEPT !.isReplay = FALSE], "replay", "")
             ELSE b

onPlay(s) ==
    IF s.isLooping \/ ~s.media.paused
    THEN [s EXCEPT !.stop = TRUE]
    ELSE LET a == satisfyMediaRequest(s, "play")
             b == [a EXCEPT !.media.paused = FALSE]
         IN  IF b.media.ended \/ b.isReplay
             THEN Emit([b EXCEPT !.isReplay = FALSE, !.media.ended = FALSE], "replay", "")
             ELSE b

\* A faulty onPlayFail: the tracking state is not reset.
onPlayFail_KeepsTracking(s) ==
    LET a == satisfyMediaRequest(s, "play")
    IN  [a EXCEPT !.media.paused = TRUE, !.media.playing = FALSE]

onPlayFail(s) ==
    LET a == satisfyMediaRequest(s, "play")
    IN  resetTracking([a EXCEPT !.media.paused = TRUE, !.media.playing = FALSE])

\* The one-tick reset is scheduled first; it runs later, as DeferredResetTracking.
onPlaying(s) ==
    LET a == [s EXCEPT !.sm.resetTimers = @ + 1,
                       !.media.paused = FALSE, !.media.playing = TRUE,
                       !.media.seeking = FALSE, !.media.ended = FALSE]
    IN  IF a.isLooping
        THEN [a EXCEPT !.stop = TRUE, !.isLooping = FALSE]
        ELSE IF ~a.media.started
             THEN Emit([a EXCEPT !.media.started = TRUE], "started", "")
             ELSE a

\* A faulty onPause: playing is left as it was.
onPause_KeepsPlaying(s) ==
    IF s.isLooping
    THEN [s EXCEPT !.stop = TRUE]
    ELSE LET a == satisfyMediaRequest(s, "pause")
         IN  resetTracking([a EXCEPT !.media.paused = TRUE, !.media.seeking = FALSE])

onPause(s) ==
    IF s.isLooping
    THEN [s EXCEPT !.stop = TRUE]
    ELSE LET a == satisfyMediaRequest(s, "pause")
         IN  resetTracking([a EXCEPT !.media.paused = TRUE, !.media.playing = FALSE,
                                     !.media.seeking = FALSE])

onTimeUpdate(s, currentTime, played) ==
    [s EXCEPT !.media.currentTime = currentTime, !.media.played = played,
              !.media.waiting = FALSE]

onVolumeChange(s, volume, muted) ==
    satisfyMediaRequest([s EXCEPT !.media.volume = volume,
                                  !.media.muted = muted \/ volume = 0], "volume")

onSeeking(s, currentTime) ==
    satisfyMediaRequest([s EXCEPT !.media.seeking = TRUE,
                                  !.media.currentTime = currentTime], "seeking")

\* A faulty onSeeked: a pending seeking request is not consulted.
onSeeked_Unsuppressed(s, currentTime) ==
    IF s.media.seeking
    THEN LET a == IF s.media.paused THEN stopWaiting(s) ELSE s
             b == [a EXCEPT !.media.seeking = FALSE,
                            !.media.ended = IF currentTime # a.media.duration
                                            THEN FALSE ELSE @,
                            !.media.currentTime = currentTime]
         IN  satisfyMediaRequest(b, "seeked")
    ELSE s

\* A faulty onSeeked: the finalizing branch leaves seeking set.
onSeeked_KeepsSeeking(s, currentTime) ==
    IF s.isSeeking
    THEN [s EXCEPT !.media.seeking = TRUE, !.stop = TRUE]
    ELSE IF s.media.seeking
         THEN LET a == IF s.media.paused THEN stopWaiting(s) ELSE s
                  b == [a EXCEPT !.media.currentTime = currentTime]
              IN  satisfyMediaRequest(b, "seeked")
         ELSE s

onSeeked(s, currentTime) ==
    IF s.isSeeking
    THEN [s EXCEPT !.media.seeking = TRUE, !.stop = TRUE]
    ELSE IF s.media.seeking
         THEN LET a == IF s.media.paused THEN stopWaiting(s) ELSE s
                  b == [a EXCEPT !.media.seeking = FALSE,
                                 !.media.ended = IF currentTime # a.media.duration
                                                 THEN FALSE ELSE @,
                                 !.media.currentTime = currentTime]
              IN  satisfyMediaRequest(b, "seeked")
         ELSE s

\* firingWaiting is true only inside fireWaitingEvent, which no other handler interrupts.
onWaiting(s) ==
    IF s.isSeeking
    THEN s
    ELSE [s EXCEPT !.stop = TRUE, !.sm.lastWaitingEvent = TRUE, !.sm.waitingTimer = TRUE]

\* The debounced body, run 300ms after the last raw waiting signal. The event it
\* dispatches on the provider passes onWaiting untouched (firingWaiting).
fireWaitingEvent(s) ==
    LET t == [s EXCEPT !.sm.waitingTimer = FALSE]
    IN  IF ~t.sm.lastWaitingEvent
        THEN t
        ELSE LET a == [t EXCEPT !.sm.trackedEvents = @ \cup {"waiting"},
                                !.media.waiting = TRUE, !.media.playing = FALSE,
                                !.sm.lastWaitingEvent = FALSE]
             IN  IF a.provider.attached THEN Emit(a, "waiting", "") ELSE a

\* A faulty onEnded: the looping flag is not consulted.
onEnded_IgnoresLooping(s) ==
    resetTracking([s EXCEPT !.media.paused = TRUE, !.media.playing = FALSE,
                            !.media.seeking = FALSE, !.media.ended = TRUE])

onEnded(s) ==
    IF s.isLooping
    THEN [s EXCEPT !.stop = TRUE]
    ELSE resetTracking([s EXCEPT !.media.paused = TRUE, !.media.playing = FALSE,
                                 !.media.seeking = FALSE, !.media.ended = TRUE])

onFullscreenChange(s, active) ==
    satisfyMediaRequest([s EXCEPT !.media.fullscreen = active], "fullscreen")

onFullscreenError(s) == satisfyMediaRequest(s, "fullscreen")

\* ------------------------------------------------------ event dispatch

Detail(num, flag, err) == [num |-> num, flag |-> flag, err |-> err, played |-> NoRanges]

\* The detail of a time-update event.
TimeUpdate(currentTime, played) == [Detail(currentTime, FALSE, "") EXCEPT !.played = played]

NoDetail == Detail(0, FALSE, "")

\* The listener registered for an event type, trackEvent included where the source
\* wraps the handler in it.
Listener(s, type, d) ==
    LET t == IF type \in TrackedTypes THEN trackEvent(s, type) ELSE s
    IN  CASE type = "can-load" -> onCanLoad(t)
          [] type = "source-change" -> onSourceChange(t)
          [] type = "load-start" -> onLoadStart(t)
          [] type = "can-play" -> onCanPlay(t, d.num)
          [] type = "duration-change" -> onDurationChange(t, IF d.num < 0 THEN 0 ELSE d.num)
          [] type = "progress" -> onProgress(t, d.num)
          [] type = "autoplay-fail" -> onAutoplayFail(t)
          [] type = "play" -> onPlay(t)
          [] type = "play-fail" -> onPlayFail(t)
          [] type = "playing" -> onPlaying(t)
          [] type = "pause" -> onPause(t)
          [] type = "time-update" -> onTimeUpdate(t, d.num, d.played)
          [] type = "volume-change" -> onVolumeChange(t, d.num, d.flag)
          [] type = "seeking" -> onSeeking(t, d.num)
          [] type = "seeked" -> onSeeked(t, d.num)
          [] type = "waiting" -> onWaiting(t)
          [] type = "ended" -> onEnded(t)
          [] type = "fullscreen-change" -> onFullscreenChange(t, d.flag)
          [] type = "fullscreen-error" -> onFullscreenError(t)
          [] OTHER -> t

\* An event run through its listener; it reaches the listeners downstream unless the
\* handler stopped it.
Deliver(s, type, d) ==
    LET r == Listener([s EXCEPT !.stop = FALSE], type, d)
    IN  IF r.stop THEN r ELSE Emit(r, type, d.err)

\* handler.handle(event): the state manager's entry point for an event that the
\* request manager (or another controller) made itself.
handle(s, type, d) == Deliver(s, type, d)

\* Whether the state manager listens for a provider event of this type: the three
\* listener tiers.
Listening(type) ==
    /\ provider.attached \/ type = "fullscreen-change"
    /\ CASE type \in {"can-load", "source-change"} -> TRUE
         [] type \in {"load-start"} -> sm.attachedCanLoadListeners
         [] type \in {"can-play"} -> sm.attachedLoadStartListeners
         [] type \in {"duration-change"} ->
                sm.attachedLoadStartListeners \/ sm.attachedCanPlayListeners
         [] type \in {"progress"} -> sm.attachedLoadStartListeners
         [] type \in {"fullscreen-change"} -> TRUE
         [] OTHER -> sm.attachedCanPlayListeners

EventDetails(type) ==
    CASE type \in {"can-play", "progress"} -> {Detail(n, FALSE, "") : n \in Durations}
      [] type = "duration-change" -> {Detail(n, FALSE, "") : n \in Durations \cup {-1}}
      [] type = "time-update" -> {TimeUpdate(n, r) : n \in Times, r \in PlayedRanges}
      [] type \in {"seeking", "seeked"} -> {Detail(n, FALSE, "") : n \in Times}
      [] type = "volume-change" -> {Detail(n, b, "") : n \in Volumes, b \in BOOLEAN}
      [] type \in {"play-fail", "autoplay-fail"} -> {Detail(0, FALSE, e) : e \in Errors}
      [] OTHER -> {NoDetail}

\* What a provider owes once it is attached, and again (but for can-load) once it has
\* announced a new source: the events of loading a source.
LoadEvents == {"can-load", "source-change", "load-start", "can-play"}

\* The events a provider sends before one of this type, when it owes them too: it
\* loads a source step by step, and answers a call in the engine's order.
Before(type) ==
    CASE type = "source-change" -> {"can-load"}
      [] type = "load-start" -> {"can-load", "source-change"}
      [] type = "can-play" -> {"can-load", "source-change", "load-start"}
      [] type = "playing" -> {"play"}
      [] type = "seeked" -> {"seeking"}
      [] type = "ended" -> {"play", "playing"}
      [] OTHER -> {}

\* A signal the provider owes (as the answer to a call, or while loading a source) costs
\* nothing; one it sends on its own account counts against MaxStimuli. (One that is
\* neither owed nor listened for changes nothing at all, and is left out.)
Signal(type) ==
    IF type \in provider.owed
    THEN Before(type) \cap provider.owed = {} /\ nstim' = nstim
    ELSE Listening(type) /\ nstim < MaxStimuli /\ nstim' = nstim + 1

\* The owed events after the provider has sent one of this type.
Sent(s, type) ==
    [s EXCEPT !.provider.owed =
        IF type = "source-change" THEN (@ \ {type}) \cup {"load-start", "can-play"}
        ELSE @ \ {type}]

\* A provider event; the state manager may not be listening for its type yet, and then
\* the event is lost on it.
ProviderEvent(type) ==
    /\ provider.attached
    /\ Signal(type)
    /\ type = "playing" => sm.resetTimers < MaxDeferred
    /\ \E d \in EventDetails(type) :
         IF Listening(type)
         THEN LET r == Deliver(Sent(Cur, type), type, d) IN Commit(r, Op(r, type, 0, d))
         ELSE Commit(Sent(Cur, type), Op(Cur, "unheard", 0, NoDetail))

\* The seeking listener is throttled: at most one seeking signal is forwarded per
\* 150ms, the ones in between are dropped.
SeekingEvent ==
    /\ provider.attached
    /\ Signal("seeking")
    /\ \E d \in EventDetails("seeking") :
         IF Listening("seeking") /\ ~sm.seekingThrottled
         THEN LET r == [Deliver(Sent(Cur, "seeking"), "seeking", d)
                           EXCEPT !.sm.seekingThrottled = TRUE]
              IN  Commit(r, Op(r, "seeking", 0, d))
         ELSE Commit(Sent(Cur, "seeking"), Op(Cur, "unheard", 0, NoDetail))

\* 150ms after a forwarded seeking signal.
SeekingThrottleElapsed ==
    /\ sm.seekingThrottled
    /\ Commit([Cur EXCEPT !.sm.seekingThrottled = FALSE], Op(Cur, "throttle-elapsed", 0, NoDetail))
    /\ UNCHANGED nstim

\* 300ms after the last raw waiting signal.
FireWaitingEvent ==
    /\ sm.waitingTimer
    /\ LET r == fireWaitingEvent(Cur)
       IN  Commit(r, Op(r, "fire-waiting", 0, NoDetail))
    /\ UNCHANGED nstim

\* setTimeout(() => resetTracking(), 0), scheduled by onPlaying.
DeferredResetTracking ==
    /\ sm.resetTimers > 0
    /\ LET r == resetTracking([Cur EXCEPT !.sm.resetTimers = @ - 1])
       IN  Commit(r, Op(r, "deferred-reset", 0, NoDetail))
    /\ UNCHANGED nstim

\* ------------------------------------------------- provider attach / detach

InitialStateManager ==
    [skipInitialSrcChange |-> TRUE, attachedCanLoadListeners |-> FALSE,
     attachedLoadStartListeners |-> FALSE, attachedCanPlayListeners |-> FALSE,
     connected |-> FALSE, lastWaitingEvent |-> FALSE, waitingTimer |-> FALSE,
     trackedEvents |-> {}, resetTimers |-> 0, seekingThrottled |-> FALSE]

\* The provider effect with a provider.
ProviderAttach ==
    /\ ~provider.attached
    /\ LET r == [Cur EXCEPT !.provider.attached = TRUE, !.provider.owed = LoadEvents,
                            !.sm.connected = TRUE]
       IN  Commit(r, Op(r, "attach", 0, NoDetail))
    /\ UNCHANGED nstim

\* The provider effect with a provider that plays its source as soon as it can, to the
\* end: besides the events of loading it owes play, playing and ended.
ProviderAttachAutoplay ==
    /\ ~provider.attached
    /\ LET r == [Cur EXCEPT !.provider.attached = TRUE,
                            !.provider.owed = LoadEvents \cup {"play", "playing", "ended"},
                            !.sm.connected = TRUE]
       IN  Commit(r, Op(r, "attach", 0, NoDetail))
    /\ UNCHANGED nstim

\* A faulty reset on disconnect: the request queue is not reset.
ProviderDetach_KeepsQueue ==
    /\ provider.attached
    /\ LET a == [Cur EXCEPT !.provider.attached = FALSE, !.provider.owed = {}]
           b == IF a.sm.connected
                THEN LET c == resetTracking(a)
                     IN  [c EXCEPT !.media = softResetMediaState(c.media),
                                   !.sm.skipInitialSrcChange = TRUE,
                                   !.sm.attachedCanLoadListeners = FALSE,
                                   !.sm.attachedLoadStartListeners = FALSE,
                                   !.sm.attachedCanPlayListeners = FALSE,
                                   !.sm.seekingThrottled = FALSE,
                                   !.sm.connected = FALSE]
                ELSE a
       IN  Commit(b, Op(b, "detach", 0, NoDetail))
    /\ UNCHANGED nstim

\* The provider effect without one: the reset on disconnect. The listeners of the three
\* tiers are disposed of, the throttle with them.
ProviderDetach ==
    /\ provider.attached
    /\ LET a == [Cur EXCEPT !.provider.attached = FALSE, !.provider.owed = {}]
           b == IF a.sm.connected
                THEN LET c == resetTracking(a)
                     IN  [c EXCEPT !.media = softResetMediaState(c.media),
                                   !.queue = QueueReset(c.queue),
                                   !.sm.skipInitialSrcChange = TRUE,
                                   !.sm.attachedCanLoadListeners = FALSE,
                                   !.sm.attachedLoadStartListeners = FALSE,
                                   !.sm.attachedCanPlayListeners = FALSE,
                                   !.sm.seekingThrottled = FALSE,
                                   !.sm.connected = FALSE]
                ELSE a
       IN  Commit(b, Op(b, "detach", 0, NoDetail))
    /\ UNCHANGED nstim

\* ------------------------------------------------------ request manager

Await(s, fn, req, origin, which) ==
    [s EXCEPT !.pending = @ \cup {Promise(fn, req, origin, which)}]

\* requests._queue._enqueue(category, event)
Enqueue(s, category, event) ==
    [s EXCEPT !.queue = QueueEnqueue(@, category, event),
              !.evicted = @ \cup {<<category, e>> : e \in QueuePeek(s.queue, category)}]

Throw(s, error) == [s EXCEPT !.thrown = error]

onStartLoading(s, event) ==
    IF s.media.canLoad THEN s
    ELSE handle(Enqueue(s, "load", event), "can-load", NoDetail)

onMuteRequest(s, event) ==
    IF s.media.muted THEN s
    ELSE Owe(Invoke(Enqueue(s, "volume", event), "muted", 1), {"volume-change"})

onUnmuteRequest(s, event) ==
    IF ~s.media.muted THEN s
    ELSE LET a == Owe(Invoke(Enqueue(s, "volume", event), "muted", 0), {"volume-change"})
         IN  IF a.media.volume = 0
             THEN Invoke(Enqueue(a, "volume", event), "volume", UnmuteVolume)
             ELSE a

\* A faulty onPlayRequest: without the guard on paused.
onPlayRequest_Unguarded(s, event) ==
    Owe(Await(Invoke(Enqueue(s, "play", event), "play", 0),
              "play", event.id, "request", ""), {"play", "playing"})

\* Up to the await: the rest runs when the promise settles (Fulfil, Reject).
onPlayRequest(s, event) ==
    IF ~s.media.paused THEN s
    ELSE Owe(Await(Invoke(Enqueue(s, "play", event), "play", 0),
                   "play", event.id, "request", ""), {"play", "playing"})

\* A faulty onPauseRequest: a request made while a record is pending does not replace it.
onPauseRequest_FirstWins(s, event) ==
    IF s.media.paused THEN s
    ELSE LET a == IF QueuePeek(s.queue, "pause") = {} THEN Enqueue(s, "pause", event) ELSE s
         IN  Owe(Await(Invoke(a, "pause", 0), "pause", event.id, "request", ""), {"pause"})

\* Up to the await: the rest runs when the promise settles (Fulfil, Reject).
onPauseRequest(s, event) ==
    IF s.media.paused THEN s
    ELSE Owe(Await(Invoke(Enqueue(s, "pause", event), "pause", 0),
                   "pause", event.id, "request", ""), {"pause"})

onSeekingRequest(s, event) ==
    [Enqueue(s, "seeking", event) EXCEPT !.media.seeking = TRUE, !.isSeeking = TRUE]

\* A faulty seek target: the requested time, however close to the end.
SeekTarget_Literal(duration, time) == time

\* The time a seek request sets on the provider: the end when close enough to it.
SeekTarget(duration, time) == IF duration - time < SeekEndTolerance THEN duration ELSE time

onSeekRequest(s, event) ==
    LET a == IF s.media.ended THEN [s EXCEPT !.isReplay = TRUE] ELSE s
        b == [Enqueue(a, "seeked", event) EXCEPT !.isSeeking = FALSE]
    IN  Owe(Invoke(b, "currentTime", SeekTarget(b.media.duration, event.detail)),
            {"seeking", "seeked"})

onVolumeChangeRequest(s, event) ==
    IF s.media.volume = event.detail THEN s
    ELSE LET a == Owe(Invoke(Enqueue(s, "volume", event), "volume", event.detail),
                      {"volume-change"})
         IN  IF event.detail > 0 /\ a.media.muted
             THEN Invoke(Enqueue(a, "volume", event), "muted", 0)
             ELSE a

\* The adapter a fullscreen request resolves to: the session's or the provider's own.
FullscreenTarget(target, env) ==
    IF (target = "prefer-media" /\ env.mediaFs) \/ target = "media" THEN "media" ELSE "provider"

\* fs?.supported of the resolved adapter (a detached provider has none).
FullscreenSupported(s, target, env) ==
    IF FullscreenTarget(target, env) = "media" THEN env.mediaFs
    ELSE s.provider.attached /\ env.providerFs

FullscreenActive(s, which) == IF which = "media" THEN s.fs.media ELSE s.fs.provider

\* A faulty enterFullscreen: the adapter's support is not checked.
enterFullscreen_Unchecked(s, target, env, req, origin) ==
    LET which == FullscreenTarget(target, env)
    IN  IF FullscreenActive(s, which) THEN s
        ELSE IF env.lockable
             THEN Await(Invoke(s, "orientation.lock", 0), "orientation.lock", req, origin, which)
             ELSE Await(Invoke(s, "fullscreen.enter", 0), "fullscreen.enter", req, origin, which)

\* enterFullscreen up to its first await (the orientation lock, or else enter()).
enterFullscreen(s, target, env, req, origin) ==
    LET which == FullscreenTarget(target, env)
    IN  IF ~FullscreenSupported(s, target, env) THEN Throw(s, FullscreenUnsupported)
        ELSE IF FullscreenActive(s, which) THEN s
        ELSE IF env.lockable
             THEN Await(Invoke(s, "orientation.lock", 0), "orientation.lock", req, origin, which)
             ELSE Await(Invoke(s, "fullscreen.enter", 0), "fullscreen.enter", req, origin, which)

\* exitFullscreen up to its first await (the orientation unlock, or else exit()).
exitFullscreen(s, target, env, req, origin) ==
    LET which == FullscreenTarget(target, env)
    IN  IF ~FullscreenSupported(s, target, env) THEN Throw(s, FullscreenUnsupported)
        ELSE IF ~FullscreenActive(s, which) THEN s
        ELSE IF s.fs.locked
             THEN Await(Invoke(s, "orientation.unlock", 0), "orientation.unlock", req, origin, which)
             ELSE Await(Invoke(s, "fullscreen.exit", 0), "fullscreen.exit", req, origin, which)

\* The catch of the two fullscreen request handlers.
onFullscreenRequestError(s, error) ==
    handle([s EXCEPT !.thrown = ""], "fullscreen-error", Detail(0, FALSE, error))

onEnterFullscreenRequest(s, event, env) ==
    LET r == enterFullscreen(Enqueue(s, "fullscreen", event), event.target, env, event.id, "request")
    IN  IF r.thrown # "" THEN onFullscreenRequestError(r, r.thrown) ELSE r

onExitFullscreenRequest(s, event, env) ==
    LET r == exitFullscreen(Enqueue(s, "fullscreen", event), event.target, env, event.id, "request")
    IN  IF r.thrown # "" THEN onFullscreenRequestError(r, r.thrown) ELSE r

onResumeIdlingRequest(s, event) ==
    [Enqueue(s, "userIdle", event) EXCEPT !.user.paused = FALSE]

onPauseIdlingRequest(s, event) ==
    [Enqueue(s, "userIdle", event) EXCEPT !.user.paused = TRUE]

\* The callback runs on the next animation frame (AnimationFrame).
onLoopRequest(s, event) == [s EXCEPT !.frames = @ + 1]

\* play(): up to the provider's promise, which is returned, not awaited, so that its
\* rejection passes the catch by. thrown is what the returned promise rejects with at once.
play(s, origin) ==
    IF ~s.media.paused THEN s
    ELSE IF ~s.provider.attached \/ ~s.media.canPlay
         THEN Throw(handle(s, "play-fail", Detail(0, FALSE, NotReady)), NotReady)
         ELSE LET a == IF s.media.ended \/ s.media.currentTime = 0
                       THEN Owe(Invoke(s, "currentTime", 0), {"seeking", "seeked"})
                       ELSE s
              IN  Owe(Await(Invoke(a, "play", 0), "play", 0, origin, ""), {"play", "playing"})

\* pause()
pause(s, origin) ==
    IF s.media.paused THEN s
    ELSE IF ~s.provider.attached \/ ~s.media.canPlay
         THEN Throw(s, NotReady)
         ELSE Owe(Await(Invoke(s, "pause", 0), "pause", 0, origin, ""), {"pause"})

RequestTypes ==
    {"media-start-loading", "media-mute-request", "media-unmute-request",
     "media-play-request", "media-pause-request", "media-seeking-request",
     "media-seek-request", "media-volume-change-request",
     "media-enter-fullscreen-request", "media-exit-fullscreen-request",
     "media-resume-user-idle-request", "media-pause-user-idle-request",
     "media-loop-request"}

FullscreenRequestTypes ==
    {"media-enter-fullscreen-request", "media-exit-fullscreen-request"}

\* eventHandlers
RequestHandler(s, event, env) ==
    CASE event.type = "media-start-loading" -> onStartLoading(s, event)
      [] event.type = "media-mute-request" -> onMuteRequest(s, event)
      [] event.type = "media-unmute-request" -> onUnmuteRequest(s, event)
      [] event.type = "media-play-request" -> onPlayRequest(s, event)
      [] event.type = "media-pause-request" -> onPauseRequest(s, event)
      [] event.type = "media-seeking-request" -> onSeekingRequest(s, event)
      [] event.type = "media-seek-request" -> onSeekRequest(s, event)
      [] event.type = "media-volume-change-request" -> onVolumeChangeRequest(s, event)
      [] event.type = "media-enter-fullscreen-request" -> onEnterFullscreenRequest(s, event, env)
      [] event.type = "media-exit-fullscreen-request" -> onExitFullscreenRequest(s, event, env)
      [] event.type = "media-resume-user-idle-request" -> onResumeIdlingRequest(s, event)
      [] event.type = "media-pause-user-idle-request" -> onPauseIdlingRequest(s, event)
      [] event.type = "media-loop-request" -> onLoopRequest(s, event)

RequestDetails(type) ==
    CASE type = "media-seek-request" -> SeekTimes
      [] type = "media-volume-change-request" -> Volumes
      [] OTHER -> {0}

RequestTargets(type) == IF type \in FullscreenRequestTypes THEN Targets ELSE {""}

RequestEnvs(type) == IF type \in FullscreenRequestTypes THEN Envs ELSE {NoEnv}

\* The identity of a new request event: one that no record, promise or the last
\* operation refers to.
IdsInUse ==
    {p[2].id : p \in queue} \cup {p.req : p \in pending} \cup {last.req}
        \cup {e.id : e \in last.served}

FreshId == CHOOSE i \in 1..(MaxStimuli + 2) : i \notin IdsInUse /\ \A j \in 1..(i - 1) : j \in IdsInUse

\* The listener the request manager registers for every request type: a request made
\* while no provider is attached reaches no handler.
RequestEvent(type) ==
    /\ nstim < MaxStimuli
    /\ type = "media-loop-request" => frames < MaxFrames
    /\ \E detail \in RequestDetails(type), target \in RequestTargets(type), env \in RequestEnvs(type) :
         LET event == Request(type, FreshId, detail, target)
             s == [Cur EXCEPT !.target = target, !.env = env]
         IN  IF provider.attached
             THEN LET r == RequestHandler(s, event, env)
                  IN  Commit(r, Op(r, type, event.id, Detail(detail, FALSE, ""))) /\ nstim' = nstim + 1
             ELSE Commit(s, Op(s, type, 0, Detail(detail, FALSE, ""))) /\ nstim' = nstim

PlayOperation ==
    /\ nstim < MaxStimuli
    /\ LET r == play(Cur, "caller")
       IN  Commit(r, Op(r, "play()", 0, Detail(0, FALSE, r.thrown)))
    /\ nstim' = nstim + 1

PauseOperation ==
    /\ nstim < MaxStimuli
    /\ LET r == pause(Cur, "caller")
       IN  Commit(r, Op(r, "pause()", 0, Detail(0, FALSE, r.thrown)))
    /\ nstim' = nstim + 1

\* The callback of onLoopRequest; the catch also runs when play() rejects at once.
AnimationFrame ==
    /\ frames > 0
    /\ LET a == [Cur EXCEPT !.frames = @ - 1, !.isLooping = TRUE, !.isReplay = TRUE]
           b == play(a, "loop")
           r == IF b.thrown # "" THEN [b EXCEPT !.isLooping = FALSE, !.isReplay = FALSE] ELSE b
       IN  Commit(r, Op(r, "animation-frame", 0, Detail(0, FALSE, b.thrown)))
    /\ UNCHANGED nstim

\* ----------------------------------------------------- promises settling

\* The events a call is answered with when it succeeds.
Answer(fn) ==
    CASE fn = "play" -> {"play", "playing"}
      [] fn = "pause" -> {"pause"}
      [] OTHER -> {}

\* A rejected call is not answered with events, unless another call of the same
\* operation is still in flight.
Unowe(s, p) ==
    IF \E q \in s.pending : q.fn = p.fn THEN s
    ELSE [s EXCEPT !.provider.owed = @ \ Answer(p.fn)]

\* The adapter's change event, on the media element: it has entered or left fullscreen.
fullscreenChange(s, which, active) ==
    Deliver([s EXCEPT !.fs[which] = active], "fullscreen-change", Detail(0, active, ""))

\* What a fulfilled promise stands for, and then the continuation of the handler that
\* awaits it: the orientation is locked or unlocked and the handler goes on to enter or
\* exit; the adapter has entered or left fullscreen and has said so.
Fulfilled(s, p) ==
    CASE p.fn = "orientation.lock" ->
            Await(Invoke([s EXCEPT !.fs.locked = TRUE], "fullscreen.enter", 0),
                  "fullscreen.enter", p.req, p.origin, p.which)
      [] p.fn = "orientation.unlock" ->
            Await(Invoke([s EXCEPT !.fs.locked = FALSE], "fullscreen.exit", 0),
                  "fullscreen.exit", p.req, p.origin, p.which)
      [] p.fn = "fullscreen.enter" -> fullscreenChange(s, p.which, TRUE)
      [] p.fn = "fullscreen.exit" -> fullscreenChange(s, p.which, FALSE)
      [] OTHER -> s

\* A faulty catch of onPauseRequest: the pause record is left in its slot.
Rejected_KeepsPause(s, p, error) ==
    CASE p.fn = "play" /\ p.origin = "request" ->
            handle(s, "play-fail", Detail(0, FALSE, error))
      [] p.fn = "play" /\ p.origin = "loop" ->
            [s EXCEPT !.isLooping = FALSE, !.isReplay = FALSE]
      [] p.fn \in {"orientation.lock", "orientation.unlock", "fullscreen.enter",
                   "fullscreen.exit"} /\ p.origin = "request" ->
            onFullscreenRequestError(s, error)
      [] OTHER -> s

\* The continuation of the handler that awaits p, once p is rejected: its catch.
Rejected(s, p, error) ==
    CASE p.fn = "play" /\ p.origin = "request" ->
            handle(s, "play-fail", Detail(0, FALSE, error))
      [] p.fn = "play" /\ p.origin = "loop" ->
            [s EXCEPT !.isLooping = FALSE, !.isReplay = FALSE]
      [] p.fn = "pause" /\ p.origin = "request" ->
            [s EXCEPT !.queue = QueueDelete(@, "pause")]
      [] p.fn \in {"orientation.lock", "orientation.unlock", "fullscreen.enter",
                   "fullscreen.exit"} /\ p.origin = "request" ->
            onFullscreenRequestError(s, error)
      [] OTHER -> s

Fulfil ==
    \E p \in pending :
       /\ LET r == Fulfilled([Cur EXCEPT !.pending = @ \ {p}], p)
          IN  Commit(r, Settled(r, "fulfilled", p, ""))
       /\ UNCHANGED nstim

Reject ==
    \E p \in pending, error \in Errors :
       /\ LET r == Rejected(Unowe([Cur EXCEPT !.pending = @ \ {p}], p), p, error)
          IN  Commit(r, Settled(r, "rejected", p, error))
       /\ UNCHANGED nstim

\* Fullscreen left (or entered) without a request of this session: the user's escape
\* key, the browser's own control.
FullscreenChange ==
    /\ nstim < MaxStimuli
    /\ \E which \in {"media", "provider"} :
         LET r == fullscreenChange(Cur, which, ~FullscreenActive(Cur, which))
         IN  Commit(r, Op(r, "fullscreen-change", 0, Detail(0, ~FullscreenActive(Cur, which), "")))
    /\ nstim' = nstim + 1

\* -------------------------------------------------------- ad controller

\* The durations an ad reports for itself.
AdDurations == {3000}

\* delegate._notify(type, detail, trigger): the event is made and handed to the state
\* manager, as if the provider had sent it.
notify(s, type, d) == handle(s, type, d)

\* remote.play(): a play request event dispatched on the player; it passes the request
\* listener's gate like any other.
remotePlay(s, id) ==
    IF s.provider.attached
    THEN RequestHandler(s, Request("media-play-request", id, 0, ""), NoEnv)
    ELSE s

onAdBuffering(s) == notify(s, "waiting", NoDetail)

onAdClick(s) == notify(s, "pause", NoDetail)

onAdLoaded(s, linear, id) ==
    IF ~linear THEN remotePlay(notify(s, "pause", NoDetail), id) ELSE s

\* A faulty _onAdStart: the played ranges are not remembered.
onAdStart_ForgetsPlayed(s, linear, duration) ==
    IF linear
    THEN LET a == [s EXCEPT !.ads.playingNonLinear = FALSE,
                            !.ads.previousPlaybackPosition = s.media.currentTime]
             b == notify(a, "duration-change", Detail(duration, FALSE, ""))
             c == notify(b, "play", NoDetail)
         IN  [c EXCEPT !.media.adStarted = TRUE]
    ELSE [s EXCEPT !.ads.playingNonLinear = TRUE]

onAdStart(s, linear, duration) ==
    IF linear
    THEN LET a == [s EXCEPT !.ads.playingNonLinear = FALSE,
                            !.ads.previousPlaybackPosition = s.media.currentTime,
                            !.ads.previousPlayedTimeranges = s.media.played]
             b == notify(a, "duration-change", Detail(duration, FALSE, ""))
             c == notify(b, "play", NoDetail)
         IN  [c EXCEPT !.media.adStarted = TRUE]
    ELSE [s EXCEPT !.ads.playingNonLinear = TRUE]

onAdComplete(s) ==
    LET a == notify(s, "duration-change", Detail(s.media.seekableEnd, FALSE, ""))
        played == IF a.ads.previousPlayedTimeranges # Null
                  THEN a.ads.previousPlayedTimeranges
                  ELSE TimeRange(0, 0)
        b == notify(a, "time-update", TimeUpdate(a.ads.previousPlaybackPosition, played))
    IN  notify(b, "ad-ended", NoDetail)

\* The complete callback is not called for a skipped ad.
onAdSkip(s) == onAdComplete(s)

\* The ad's position: its duration less the time it has left.
onAdProgress(s, remaining) ==
    LET currentTime == s.media.duration - remaining
    IN  notify(s, "time-update", TimeUpdate(currentTime, TimeRange(0, currentTime)))

AdEventTypes ==
    {"adBuffering", "adClick", "adLoaded", "adStart", "adComplete", "adSkip", "adProgress"}

\* What the ads manager reports of a linear ad between its start and its end.
LinearAdEvents == {"adBuffering", "adClick", "adProgress", "adComplete", "adSkip"}

AdHandler(s, type, linear, id) ==
    CASE type = "adBuffering" -> onAdBuffering(s)
      [] type = "adClick" -> onAdClick(s)
      [] type = "adLoaded" -> onAdLoaded(s, linear, id)
      [] type = "adStart" -> onAdStart(s, linear, CHOOSE d \in AdDurations : TRUE)
      [] type = "adComplete" -> onAdComplete(s)
      [] type = "adSkip" -> onAdSkip(s)
      [] type = "adProgress" -> onAdProgress(s, 0)

\* The handler of an ad event, whether a linear ad is running after it, and the
\* duration the content had as the linear ad break started.
AdStep(type, linear) ==
    LET a == AdHandler(Cur, type, linear, FreshId)
        r == [a EXCEPT !.ads.running =
                 CASE type = "adStart" /\ linear -> TRUE
                   [] type \in {"adComplete", "adSkip"} -> FALSE
                   [] OTHER -> @,
               !.ads.contentDuration =
                 IF type = "adStart" /\ linear /\ ~ads.running THEN media.duration ELSE @]
    IN  Commit(r, Op(r, type, 0, Detail(0, linear, "")))

\* An event of the ads manager; the controller listens to it for the lifetime of a
\* provider session.
AdEvent(type) ==
    /\ provider.attached
    /\ nstim < MaxStimuli
    /\ \E linear \in (IF type \in {"adLoaded", "adStart"} THEN BOOLEAN ELSE {TRUE}) :
         AdStep(type, linear)
    /\ nstim' = nstim + 1

\* An event of the linear ad that is running: it comes with the ad, and does not
\* count against MaxStimuli.
LinearAdEvent(type) ==
    /\ provider.attached
    /\ ads.running
    /\ AdStep(type, TRUE)
    /\ UNCHANGED nstim

\* ------------------------------------------- ads controller: loader and manager

\* The play() calls that may await the ad-load promise at a time.
MaxAwaitingPlays == 1

\* The ads loader and the ads manager are "none" (not made yet), "live" or "destroyed"
\* (the controller keeps its reference to a destroyed one).

\* play(), from the point where the ad-load promise has let it through. An ad that has
\* started is resumed (resume(): the manager resumes if there is one and it has an ad
\* with time left, which is the case while a linear ad is running); otherwise the
\* manager is initialised and started, which throws a TypeError when there is none.
adsPlayLoaded(s) ==
    IF s.media.adStarted
    THEN IF s.ads.manager # "none"
         THEN LET a == Invoke(s, "adsManager.getRemainingTime", s.ads.manager)
              IN  IF a.ads.running THEN Invoke(a, "adsManager.resume", a.ads.manager) ELSE a
         ELSE s
    ELSE IF s.ads.manager = "none" THEN Throw(s, "TypeError")
    ELSE LET a == Invoke(s, "adsManager.init", s.ads.manager)
             b == Invoke(a, "adsManager.start", a.ads.manager)
         IN  [b EXCEPT !.ads.started = (b.ads.manager = "live")]

\* play(): it awaits the ad-load promise first (there is none before _setup has run).
adsPlay(s) ==
    CASE s.ads.loading = "pending" -> [s EXCEPT !.ads.awaiting = @ + 1]
      [] s.ads.loading = "rejected" -> Throw(s, "rejected")
      [] OTHER -> adsPlayLoaded(s)

\* The play() calls that awaited the ad-load promise go on once it is settled.
adsPlayAwaited(s) ==
    IF s.ads.awaiting = 0 THEN s
    ELSE LET a == [s EXCEPT !.ads.awaiting = 0]
         IN  IF a.ads.loading = "rejected" THEN Throw(a, "rejected") ELSE adsPlayLoaded(a)

\* _onAdsManagerLoaded: nothing is done when ads are not enabled; otherwise the
\* manager is taken from the loader's response.
onAdsManagerLoaded(s, enabled) ==
    IF ~enabled THEN s ELSE [s EXCEPT !.ads.manager = "live"]

onAdsLoaderError(s) ==
    IF s.ads.loader # "none" THEN [s EXCEPT !.ads.loader = "destroyed"] ELSE s

\* _onAdsManagerAdError: a destroyed manager plays no ad and reports nothing more.
onAdsManagerAdError(s) ==
    IF s.ads.manager # "none"
    THEN [s EXCEPT !.ads.manager = "destroyed", !.ads.started = FALSE,
                   !.ads.running = FALSE]
    ELSE s

\* The SDK has loaded and _setup runs, once: the loader is made, the ad-load promise
\* with it, and the ads are requested.
AdsSetup ==
    /\ ads.loader = "none"
    /\ LET r == Invoke([Cur EXCEPT !.ads.loader = "live", !.ads.loading = "pending"],
                       "adsLoader.requestAds", "live")
       IN  Commit(r, Op(r, "ads-setup", 0, NoDetail))
    /\ UNCHANGED nstim

\* The loader answers the ads request with a manager. Ads are enabled when the provider
\* is of type video or hls and an ads URL is set, which takes a provider. The loader's
\* listener runs the handler, sets adsLoaded and resolves the ad-load promise.
AdsManagerLoaded ==
    /\ ads.loader = "live"
    /\ ads.loading = "pending"
    /\ \E enabled \in (IF provider.attached THEN BOOLEAN ELSE {FALSE}) :
         LET a == onAdsManagerLoaded(Cur, enabled)
             b == [a EXCEPT !.ads.adsLoaded = TRUE,
                            !.ads.loading = IF @ = "pending" THEN "resolved" ELSE @]
             r == adsPlayAwaited(b)
         IN  Commit(r, Op(r, "ads-manager-loaded", 0, Detail(0, enabled, r.thrown)))
    /\ UNCHANGED nstim

\* The loader reports an error: its listener runs the handler and rejects the ad-load
\* promise.
AdsLoaderError ==
    /\ ads.loader = "live"
    /\ LET a == onAdsLoaderError(Cur)
           b == [a EXCEPT !.ads.loading = IF @ = "pending" THEN "rejected" ELSE @]
           r == adsPlayAwaited(b)
       IN  Commit(r, Op(r, "ads-loader-error", 0, Detail(0, FALSE, r.thrown)))
    /\ UNCHANGED nstim

\* The manager reports an ad error.
AdsManagerAdError ==
    /\ ads.manager = "live"
    /\ LET r == onAdsManagerAdError(Cur)
       IN  Commit(r, Op(r, "ads-manager-error", 0, NoDetail))
    /\ UNCHANGED nstim

\* A call of the controller's play(); what it throws is the detail's error.
AdsPlay ==
    /\ ads.awaiting < MaxAwaitingPlays
    /\ LET r == adsPlay(Cur) IN Commit(r, Op(r, "ads-play", 0, Detail(0, FALSE, r.thrown)))
    /\ UNCHANGED nstim

\* What a started manager reports: the start of a linear or a non-linear ad, and for
\* the linear ad that is running its progress, buffering, clicks and its end.
ManagerAdEvent(type) ==
    /\ provider.attached
    /\ ads.manager = "live"
    /\ ads.started
    /\ IF type = "adStart" THEN ~ads.running ELSE ads.running
    /\ \E linear \in (IF type = "adStart" THEN BOOLEAN ELSE {TRUE}) : AdStep(type, linear)
    /\ UNCHANGED nstim

\* ------------------------------------------------ MediaControllerElement

\* The media provider elements that come and go under the controller element.
ProviderElements == {"A", "B"}

\* handleMediaProviderConnect: the provider becomes the controller's media provider
\* and is given the controller's context record; its disconnect callback is registered.
handleMediaProviderConnect(s, p) ==
    [s EXCEPT !.controller.mediaProvider = p,
              !.controller.context[p] = "controller",
              !.controller.connected = @ \cup {p}]

\* The disconnect callback registered for provider p: it gives the controller's current
\* media provider a context record of its own and forgets it; with no media provider
\* the assignment throws a TypeError.
onProviderDisconnect(s, p) ==
    LET a == [s EXCEPT !.controller.connected = @ \ {p}]
    IN  IF a.controller.mediaProvider = "none" THEN Throw(a, "TypeError")
        ELSE [a EXCEPT !.controller.context[a.controller.mediaProvider] = "own",
                       !.controller.mediaProvider = "none"]

\* The request handlers: the request is stopped at the controller, and forwarded to the
\* media provider if there is one.
forward(s, property, value) ==
    IF s.controller.mediaProvider # "none"
    THEN Invoke(s, s.controller.mediaProvider \o "." \o property, value)
    ELSE s

ControllerRequestTypes ==
    {"vds-mute-request", "vds-unmute-request", "vds-play-request", "vds-pause-request",
     "vds-seek-request", "vds-volume-change-request"}

\* handleMuteRequest, handleUnmuteRequest, handlePlayRequest, handlePauseRequest,
\* handleSeekRequest and handleVolumeChangeRequest.
ControllerRequestHandler(s, type, detail) ==
    CASE type = "vds-mute-request" -> forward(s, "muted", 1)
      [] type = "vds-unmute-request" -> forward(s, "muted", 0)
      [] type = "vds-play-request" -> forward(s, "paused", 0)
      [] type = "vds-pause-request" -> forward(s, "paused", 1)
      [] type = "vds-seek-request" -> forward(s, "currentTime", detail)
      [] type = "vds-volume-change-request" -> forward(s, "volume", detail)

\* A provider element connects under the controller.
MediaProviderConnect ==
    /\ \E p \in ProviderElements \ controller.connected :
         LET r == handleMediaProviderConnect(Cur, p)
         IN  Commit(r, Op(r, "vds-media-provider-connect", 0, Detail(0, FALSE, p)))
    /\ UNCHANGED nstim

\* A connected provider element disconnects: its disconnect callback runs. The flag of
\* the detail tells whether it threw.
MediaProviderDisconnect ==
    /\ \E p \in controller.connected :
         LET r == onProviderDisconnect(Cur, p)
         IN  Commit(r, Op(r, "media-provider-disconnect", 0, Detail(0, r.thrown # "", p)))
    /\ UNCHANGED nstim

\* A media request event reaches the controller element.
ControllerRequest ==
    /\ \E type \in ControllerRequestTypes :
         \E detail \in (CASE type = "vds-seek-request" -> SeekTimes
                           [] type = "vds-volume-change-request" -> Volumes
                           [] OTHER -> {0}) :
            LET r == ControllerRequestHandler(Cur, type, detail)
            IN  Commit(r, Op(r, type, 0, Detail(detail, FALSE, "")))
    /\ UNCHANGED nstim

\* --------------------------------------------------------- idle detector

\* The events a user's activity is known by.
IDLE_EVENTS == {"pointerdown", "pointermove", "focus", "keydown"}

\* useMediaUser once it has run: $idle is false, and the effect on $media.paused has
\* found the media paused and has paused the tracking.
InitialUser ==
    [paused |-> InitialMediaState.paused, idling |-> FALSE, timer |-> FALSE,
     connected |-> FALSE, trigger |-> "", timerEvent |-> ""]

\* handleIdleChange: the timeout is set anew, unless the tracking is paused.
handleIdleChange(s, event) ==
    IF s.user.paused THEN s ELSE [s EXCEPT !.user.timer = TRUE, !.user.timerEvent = event]

\* The callback of the timeout, delay after the last input: the input becomes the
\* trigger event.
onIdleTimeout(s) ==
    [s EXCEPT !.user.timer = FALSE, !.user.timerEvent = "",
              !.user.trigger = s.user.timerEvent, !.user.idling = FALSE]

\* onConnect: the two effects are made, and each runs once as it is made.
onConnect(s) ==
    LET a == [s EXCEPT !.user.connected = TRUE]
        b == IF a.user.paused THEN [a EXCEPT !.user.trigger = "", !.user.idling = TRUE] ELSE a
    IN  dispatchIdleChange([b EXCEPT !.user.timer = FALSE, !.user.timerEvent = ""],
                           b.user.idling)

\* The disposal onConnect returns: the listeners and the effects are gone.
onDisconnect(s) ==
    [s EXCEPT !.user.connected = FALSE, !.user.trigger = "", !.user.idling = TRUE]

UserConnect ==
    /\ ~user.connected
    /\ LET r == onConnect(Cur) IN Commit(r, Op(r, "connect", 0, NoDetail))
    /\ UNCHANGED nstim

UserDisconnect ==
    /\ user.connected
    /\ LET r == onDisconnect(Cur) IN Commit(r, Op(r, "disconnect", 0, NoDetail))
    /\ UNCHANGED nstim

\* A qualifying input on the connected host.
IdleInput ==
    /\ user.connected
    /\ \E type \in IDLE_EVENTS :
         LET r == handleIdleChange(Cur, type)
         IN  Commit(r, Op(r, "idle-input", 0, Detail(0, FALSE, type)))
    /\ UNCHANGED nstim

\* delay has passed since the timeout was set.
IdleTimeout ==
    /\ user.timer
    /\ LET r == onIdleTimeout(Cur) IN Commit(r, Op(r, "idle-timeout", 0, NoDetail))
    /\ UNCHANGED nstim

\* ------------------------------------------------------------- behaviour

Init ==
    /\ media = InitialMediaState
    /\ queue = {}
    /\ isSeeking = FALSE
    /\ isLooping = FALSE
    /\ isReplay = FALSE
    /\ provider = [attached |-> FALSE, owed |-> {}]
    /\ sm = InitialStateManager
    /\ pending = {}
    /\ fs = [media |-> FALSE, provider |-> FALSE, locked |-> FALSE]
    /\ user = InitialUser
    /\ ads = [playingNonLinear |-> FALSE, previousPlaybackPosition |-> 0,
              previousPlayedTimeranges |-> Null, running |-> FALSE,
              contentDuration |-> 0, loader |-> "none", manager |-> "none",
              loading |-> "none", adsLoaded |-> FALSE, awaiting |-> 0, started |-> FALSE]
    /\ controller = [mediaProvider |-> "none",
                     context |-> [p \in ProviderElements |-> "own"],
                     connected |-> {}]
    /\ frames = 0
    /\ nstim = 0
    /\ last = [op |-> "init", req |-> 0, detail |-> NoDetail, target |-> "", env |-> NoEnv,
               promise |-> NoPromise, calls |-> {}, emits |-> <<>>, served |-> {},
               evicted |-> {}, idleChanges |-> <<>>, idleTriggers |-> <<>>]

ProviderEventTypes ==
    {"can-load", "source-change", "load-start", "can-play", "duration-change",
     "progress", "autoplay-fail", "play", "play-fail", "playing", "pause", "time-update",
     "volume-change", "seeked", "waiting", "ended"}

Next ==
    \/ ProviderAttach
    \/ ProviderDetach
    \/ \E type \in ProviderEventTypes : ProviderEvent(type)
    \/ SeekingEvent
    \/ FullscreenChange
    \/ \E type \in AdEventTypes : AdEvent(type)
    \/ \E type \in RequestTypes : RequestEvent(type)
    \/ PlayOperation
    \/ PauseOperation
    \/ AnimationFrame
    \/ Fulfil
    \/ Reject
    \/ SeekingThrottleElapsed
    \/ FireWaitingEvent
    \/ DeferredResetTracking

Spec == Init /\ [][Next]_vars

\* What an ad session sees of the content's session: the provider coming and going and
\* loading its source, its seekable range, and the content's position and played
\* ranges.
AdProviderEventTypes ==
    {"can-load", "source-change", "load-start", "can-play", "progress", "time-update"}

\* The ad sessions played out: a linear ad that has started reports its progress,
\* buffering, clicks and its end; a non-linear ad makes a play request, which the
\* provider answers.
NextAd ==
    \/ ProviderAttach
    \/ ProviderDetach
    \/ \E type \in AdProviderEventTypes \cup {"play", "playing"} : ProviderEvent(type)
    \/ \E type \in AdEventTypes : AdEvent(type)
    \/ \E type \in LinearAdEvents : LinearAdEvent(type)
    \/ Fulfil
    \/ Reject
    \/ FireWaitingEvent
    \/ DeferredResetTracking

AdSpec == Init /\ [][NextAd]_vars

\* The ad sessions from the loading of the ads on: the loader and the manager come and
\* fail, play() is called at any time, and a started manager plays its ads.
NextAdSession ==
    \/ ProviderAttach
    \/ \E type \in LoadEvents \cup {"progress"} : ProviderEvent(type)
    \/ AdsSetup
    \/ AdsManagerLoaded
    \/ AdsLoaderError
    \/ AdsManagerAdError
    \/ AdsPlay
    \/ \E type \in {"adStart"} \cup LinearAdEvents : ManagerAdEvent(type)

AdSessionSpec == Init /\ [][NextAdSession]_vars

\* What the idle detector sees of a session: the provider coming and going and loading
\* its source, playback starting, pausing and failing, and the idle requests.
IdleProviderEventTypes ==
    {"can-load", "source-change", "load-start", "can-play", "play", "play-fail", "playing",
     "pause"}

IdleRequestTypes ==
    {"media-play-request", "media-pause-request", "media-resume-user-idle-request",
     "media-pause-user-idle-request"}

\* The idle detector on a connected host, with the session it watches.
NextIdle ==
    \/ UserConnect
    \/ UserDisconnect
    \/ IdleInput
    \/ IdleTimeout
    \/ ProviderAttach
    \/ ProviderDetach
    \/ \E type \in IdleProviderEventTypes : ProviderEvent(type)
    \/ \E type \in IdleRequestTypes : RequestEvent(type)
    \/ Fulfil
    \/ Reject
    \/ DeferredResetTracking

IdleSpec == Init /\ [][NextIdle]_vars

\* The controller element with its provider elements coming and going.
NextController ==
    \/ MediaProviderConnect
    \/ MediaProviderDisconnect
    \/ ControllerRequest

ControllerSpec == Init /\ [][NextController]_vars

\* What a session of playback sees of the provider and of the requests.
PlaybackProviderEventTypes ==
    {"can-load", "source-change", "load-start", "can-play", "play", "play-fail", "playing",
     "pause", "seeked", "waiting", "ended"}

PlaybackRequestTypes ==
    {"media-play-request", "media-pause-request", "media-seeking-request",
     "media-seek-request", "media-loop-request"}

\* The sessions of a provider that starts playing by itself: playing, pausing, seeking,
\* buffering, ending and looping.
NextPlayback ==
    \/ ProviderAttachAutoplay
    \/ ProviderDetach
    \/ \E type \in PlaybackProviderEventTypes : ProviderEvent(type)
    \/ SeekingEvent
    \/ \E type \in PlaybackRequestTypes : RequestEvent(type)
    \/ AnimationFrame
    \/ Fulfil
    \/ Reject
    \/ SeekingThrottleElapsed
    \/ FireWaitingEvent
    \/ DeferredResetTracking

PlaybackSpec == Init /\ [][NextPlayback]_vars

\* ---------------------------------------------------------------- claims

\* C1: for every request category the queue holds at most one pending record, and
\* an enqueue into an occupied slot leaves only the later request event in it: after
\* a request whose enqueue replaced a record (and was not served in the same step),
\* the slot holds that request and no replaced record of another request remains.
C1_OneRecordPerCategory ==
    /\ \A c \in Categories : Cardinality(QueuePeek(queue, c)) <= 1
    /\ \A x \in last.evicted :
          /\ x[2].id # last.req => x \notin queue
          /\ last.op \in RequestTypes /\ last.served = {} =>
                QueuePeek(queue, x[1]) =
                    {Request(last.op, last.req, last.detail.num, last.target)}

\* C1: a second request of a category has replaced the pending record of the first.
C1_Witness ==
    /\ last.op \in RequestTypes
    /\ \E x \in last.evicted : x[2].id # last.req
    /\ last.served = {}
    /\ Cardinality(queue) = 1

\* The session is at rest: a provider is attached, every call has been answered (no
\* promise is in flight, no event is owed) and no timer or frame callback is pending.
Quiescent ==
    /\ provider.attached
    /\ pending = {}
    /\ provider.owed = {}
    /\ frames = 0
    /\ ~sm.waitingTimer
    /\ sm.resetTimers = 0
    /\ ~sm.seekingThrottled

\* C2: every enqueued request is eventually removed from its slot once the provider
\* has answered each call: with every call answered and nothing left to run, no
\* category slot is still occupied.
C2_NoSlotStaysOccupied == Quiescent => queue = {}

\* C3: playing and paused are never both true.
C3_NotPlayingAndPaused == ~(media.playing /\ media.paused)

\* C3: a forged pause notification of the ad controller has paused media that was
\* playing.
C3_Witness ==
    /\ last.op = "adClick"
    /\ media.started
    /\ media.paused
    /\ ~media.playing

\* C4: ended implies paused and not playing.
C4_EndedImpliesPaused == media.ended => media.paused /\ ~media.playing

\* C4: a play event after the end has been handled as a replay, and ended is clear.
C4_Witness ==
    /\ last.op = "play"
    /\ \E i \in 1..Len(last.emits) : last.emits[i].type = "replay"
    /\ ~media.paused
    /\ ~media.ended

\* C5 as stated: seeking is true only between a seeking signal and its matching
\* seeked signal. It becomes true only when a seeking signal is handled, and it is
\* false once a seeked signal has been handled.
C5_SeekingOnlyBetweenSignals ==
    [][/\ (media'.seeking /\ ~media.seeking) => last'.op = "seeking"
       /\ last'.op = "seeked" => ~media'.seeking]_vars

\* C5 as the code has it: seeking becomes true only when a seeking request or a
\* seeking signal is handled, or a seeked signal while a seeking request is pending;
\* and it is false once a seeked signal has been handled with no seeking request
\* pending.
C5_SeekingOnlyBetweenRequestOrSignalAndSeeked ==
    [][/\ (media'.seeking /\ ~media.seeking) =>
             \/ last'.op \in {"seeking", "media-seeking-request"}
             \/ last'.op = "seeked" /\ isSeeking
       /\ (last'.op = "seeked" /\ ~isSeeking) => ~media'.seeking]_vars

\* C5: a seeked signal has been handled while a seeking request was pending, and
\* seeking is still true.
C5_Witness ==
    /\ last.op = "seeked"
    /\ isSeeking
    /\ media.seeking
    /\ QueuePeek(queue, "seeking") # {}

\* The state a request finds in which what it asks for already holds.
AlreadyHolds ==
    \/ last'.op = "media-play-request" /\ ~media.paused
    \/ last'.op = "media-pause-request" /\ media.paused
    \/ last'.op = "media-mute-request" /\ media.muted
    \/ last'.op = "media-unmute-request" /\ ~media.muted
    \/ last'.op = "media-volume-change-request" /\ last'.detail.num = media.volume
    \/ last'.op = "media-start-loading" /\ media.canLoad

\* C6: a play request while not paused, a pause request while paused, a mute request
\* while muted, an unmute request while not muted, a volume-change request for the
\* current volume and a start-loading request while canLoad are silent no-ops: the
\* queue and MediaState are unchanged, no provider operation is invoked (and none is
\* left awaited), and nothing is notified.
C6_SilentNoOps ==
    [][AlreadyHolds =>
          /\ queue' = queue
          /\ media' = media
          /\ pending' = pending
          /\ last'.calls = {}
          /\ last'.emits = <<>>]_vars

\* C6: a play request has reached its handler while the media was playing.
C6_Witness ==
    /\ last.op = "media-play-request"
    /\ last.req # 0
    /\ media.playing
    /\ ~media.paused
    /\ last.calls = {}

\* The provider has rejected the call a request of this type made.
RequestCallRejected(fn) ==
    /\ last.op = "rejected"
    /\ last.promise.fn = fn
    /\ last.promise.origin = "request"

\* C7: when the provider rejects play() for a play request, exactly one play-fail
\* notification is produced, carrying the error of the rejection, and afterwards
\* paused is true, playing false, the play slot empty and no event is tracked.
C7_PlayRejected ==
    RequestCallRejected("play") =>
        /\ last.emits = <<Notification("play-fail", last.detail.err)>>
        /\ media.paused
        /\ ~media.playing
        /\ QueuePeek(queue, "play") = {}
        /\ sm.trackedEvents = {}

\* C7: the rejection of play() has been handled, and the play-fail event took the
\* pending play request with it.
C7_Witness ==
    /\ RequestCallRejected("play")
    /\ \E e \in last.served : e.id = last.req /\ e.type = "media-play-request"

\* C8: when the provider rejects pause() for a pause request, the pause slot is
\* emptied, nothing is notified and MediaState is unchanged; and a pause event
\* serves only the record its slot holds when it arrives, so never the failed one.
C8_PauseRejected ==
    [][/\ RequestCallRejected("pause")' =>
             /\ QueuePeek(queue', "pause") = {}
             /\ last'.emits = <<>>
             /\ media' = media
       /\ last'.op = "pause" => last'.served \subseteq QueuePeek(queue, "pause")]_vars

\* C8: the rejection of pause() has been handled while the media was playing and the
\* request's record was in its slot; the slot is empty now.
C8_Witness ==
    /\ RequestCallRejected("pause")
    /\ media.playing
    /\ ~media.paused
    /\ last.req # 0
    /\ QueuePeek(queue, "pause") = {}

\* The adapter the last fullscreen request resolved to lacks fullscreen support.
ResolvedTargetUnsupported ==
    /\ last.op \in FullscreenRequestTypes
    /\ last.req # 0
    /\ IF FullscreenTarget(last.target, last.env) = "media"
       THEN ~last.env.mediaFs
       ELSE ~last.env.providerFs

\* C9: an enter- or exit-fullscreen request whose resolved target lacks fullscreen
\* support produces a fullscreen-error notification, and calls neither enter() or
\* exit() nor the orientation lock or unlock, then or later.
C9_FullscreenUnsupported ==
    ResolvedTargetUnsupported =>
        /\ last.emits = <<Notification("fullscreen-error", FullscreenUnsupported)>>
        /\ last.calls = {}
        /\ \A p \in pending : p.req # last.req

\* C9: an enter-fullscreen request for the provider's own fullscreen, which is not
\* supported while the session's adapter is, has ended in a fullscreen-error.
C9_Witness ==
    /\ ResolvedTargetUnsupported
    /\ last.op = "media-enter-fullscreen-request"
    /\ last.target = "provider"
    /\ last.env.mediaFs
    /\ Len(last.emits) = 1

\* A play or pause that asks for a change while no provider is attached or the
\* session has not reached canPlay.
NotReadyFor(ops, paused) ==
    /\ last'.op \in ops
    /\ media.paused = paused
    /\ ~provider.attached \/ ~media.canPlay

\* C10: play and pause, as a request or through the play()/pause() operations, fail
\* fast and never call the provider when what they ask for does not hold yet and no
\* provider is attached or the session has not reached canPlay; play surfaces the
\* failure as a play-fail notification, pause notifies nothing.
C10_FailFastWhenNotReady ==
    [][/\ NotReadyFor({"media-play-request", "play()"}, TRUE) =>
             /\ last'.calls = {}
             /\ pending' = pending
             /\ last'.emits = <<Notification("play-fail", NotReady)>>
       /\ NotReadyFor({"media-pause-request", "pause()"}, FALSE) =>
             /\ last'.calls = {}
             /\ pending' = pending
             /\ last'.emits = <<>>]_vars

\* C11: a seek request with target t sets the provider's currentTime, once, to the
\* duration when duration - t < 0.25s and to t itself otherwise; with a duration of 10s,
\* a seek to 9.9s sets 10s and a seek to 9s sets 9s.
C11_SeekSpansToEnd ==
    (last.op = "media-seek-request" /\ last.req # 0) =>
        LET t == last.detail.num
            set == {c \in last.calls : c.fn = "currentTime"}
        IN  /\ Cardinality(set) = 1
            /\ media.duration - t < 25 => set = {Call("currentTime", media.duration)}
            /\ media.duration - t >= 25 => set = {Call("currentTime", t)}
            /\ media.duration = 1000 /\ t = 990 => set = {Call("currentTime", 1000)}
            /\ media.duration = 1000 /\ t = 900 => set = {Call("currentTime", 900)}

\* C11: with a duration of 10s, a seek to 9.9s has set the provider's time to 10s.
C11_Witness ==
    /\ last.op = "media-seek-request"
    /\ last.req # 0
    /\ media.duration = 1000
    /\ last.detail.num = 990
    /\ Call("currentTime", 1000) \in last.calls

\* C12 as stated: a mute request issued when the volume is 0 and the media is not yet
\* muted (the provider has just reported the volume 0, unmuted) makes two enqueues
\* under the volume category and sets the provider muted and its volume to 0.25.
C12_MuteAtZeroForcesVolume ==
    [][(/\ last'.op = "media-mute-request"
        /\ last'.req # 0
        /\ media.volume = 0
        /\ ~media.muted \/ (last.op = "volume-change" /\ ~last.detail.flag)) =>
           /\ Call("muted", 1) \in last'.calls
           /\ Call("volume", UnmuteVolume) \in last'.calls
           /\ \E x \in last'.evicted : x[1] = "volume" /\ x[2].id = last'.req]_vars

\* C13: the first source-change event after a provider attaches (the one the provider
\* still owes from its attachment) leaves MediaState, the replay and looping flags
\* and the tracked events as they are (the event itself is tracked); every later
\* source-change while the provider stays attached soft-resets MediaState, clears the
\* replay and looping flags and clears every tracked event before it (only the
\* source-change itself is tracked afterwards).
C13_SourceChangeReset ==
    [][last'.op = "source-change" =>
          IF "source-change" \in provider.owed
          THEN /\ media' = media
               /\ isReplay' = isReplay
               /\ isLooping' = isLooping
               /\ sm'.trackedEvents = sm.trackedEvents \cup {"source-change"}
          ELSE /\ media' = softResetMediaState(media)
               /\ ~isReplay'
               /\ ~isLooping'
               /\ sm'.trackedEvents = {"source-change"}]_vars

\* C13: a later source-change has reset a session that had reached can-play: canPlay
\* is false again while the can-play listeners are still attached.
C13_Witness ==
    /\ last.op = "source-change"
    /\ provider.attached
    /\ sm.attachedCanPlayListeners
    /\ ~media.canPlay
    /\ media.canLoad
    /\ sm.trackedEvents = {"source-change"}

\* C14: while the looping flag is set, an ended event of the engine sets neither ended
\* nor paused (MediaState is left as it is and the looping flag stays set); the
\* playing event of the forced play then clears the looping flag, and emits no started
\* notification when started was already true.
C14_LoopSequence ==
    [][/\ (last'.op = "ended" /\ isLooping) =>
             /\ media' = media
             /\ isLooping'
       /\ (last'.op = "playing" /\ isLooping) =>
             /\ ~isLooping'
             /\ media.started =>
                   \A i \in 1..Len(last'.emits) : last'.emits[i].type # "started"]_vars

\* C14: the playing event of a forced play has been handled under the looping flag (it
\* went no further), with started already true; the flag is clear.
C14_Witness ==
    /\ last.op = "playing"
    /\ last.emits = <<>>
    /\ ~isLooping
    /\ media.started
    /\ media.playing

\* A linear ad has just started.
LinearAdStarted == last'.op = "adStart" /\ last'.detail.flag

\* C15: the content position p and the played ranges R that MediaState holds when a
\* linear ad starts are remembered by the ad controller; no other event changes what it
\* remembers (in particular none of the ad's progress, buffering and click events);
\* and handling ad complete or ad skip for the running ad sets currentTime and played
\* to what is remembered. So whatever the ad reports in between, after ad complete
\* (or ad skip) currentTime = p and played = R.
C15_AdRoundTrip ==
    [][/\ LinearAdStarted =>
             /\ ads'.previousPlaybackPosition = media.currentTime
             /\ ads'.previousPlayedTimeranges = media.played
             /\ media.played # Null
       /\ ~LinearAdStarted =>
             /\ ads'.previousPlaybackPosition = ads.previousPlaybackPosition
             /\ ads'.previousPlayedTimeranges = ads.previousPlayedTimeranges
       /\ (last'.op \in {"adComplete", "adSkip"} /\ ads.running) =>
             /\ media'.currentTime = ads.previousPlaybackPosition
             /\ media'.played = ads.previousPlayedTimeranges]_vars

\* C15: a linear ad that started at the content position 10s with played ranges has
\* been skipped; the position, the played ranges and the content's duration are back.
C15_Witness ==
    /\ last.op = "adSkip"
    /\ ~ads.running
    /\ media.adStarted
    /\ ads.previousPlaybackPosition = 1000
    /\ media.currentTime = 1000
    /\ media.played = TimeRange(0, 1000)
    /\ media.duration \notin AdDurations

\* C16 as stated: with the media playing and the idle tracking not paused, when the
\* delay has passed since a qualifying input with no further one, idling becomes true
\* and exactly one user-idle-change notification is dispatched, with the detail true;
\* a further qualifying input before the delay has passed sets the delay anew instead
\* (the timeout stays pending, idling is unchanged, nothing is dispatched).
C16_IdleAfterDelay ==
    [][/\ (last'.op = "idle-timeout" /\ user.connected /\ ~media.paused /\ ~user.paused) =>
             /\ user'.idling
             /\ last'.idleChanges = <<"true">>
       /\ (last'.op = "idle-input" /\ user.timer /\ ~media.paused /\ ~user.paused) =>
             /\ user'.timer
             /\ user'.idling = user.idling
             /\ last'.idleChanges = <<>>]_vars

\* C17 as stated: once the idle detector is connected, idling is true whenever the
\* media is paused or the idle tracking is paused; and the callback of an idle timeout
\* that was pending when the pause happened never finds the media or the tracking
\* paused, so that it never turns idling false then.
C17_PausedImpliesIdling ==
    [][/\ (user'.connected /\ (media'.paused \/ user'.paused)) => user'.idling
       /\ last'.op = "idle-timeout" => ~(media.paused \/ user.paused)]_vars

\* The state the reset on disconnect leaves: every category slot empty, no event
\* tracked, the replay and looping flags false, no waiting debounce pending, the three
\* listener-tier flags clear, and the next source-change the first one again.
ResetOnDisconnect ==
    /\ queue = {}
    /\ sm.trackedEvents = {}
    /\ ~isReplay
    /\ ~isLooping
    /\ ~sm.waitingTimer
    /\ ~sm.attachedCanLoadListeners
    /\ ~sm.attachedLoadStartListeners
    /\ ~sm.attachedCanPlayListeners
    /\ sm.skipInitialSrcChange

\* C18: when the attached provider detaches, the session is in the state of the reset
\* on disconnect; and it is in that state whenever a provider attaches.
C18_DetachResets ==
    [][/\ last'.op = "detach" => ResetOnDisconnect' /\ ~provider'.attached
       /\ last'.op = "attach" => ResetOnDisconnect]_vars

\* C18: a provider that had a request pending, events tracked and the three tiers of
\* listeners attached has detached (its play() is still in flight).
C18_Witness ==
    /\ last.op = "detach"
    /\ ~provider.attached
    /\ queue = {}
    /\ sm.trackedEvents = {}
    /\ \E p \in pending : p.fn = "play" /\ p.origin = "request"
    /\ media.canLoad
    /\ ~media.canPlay

\* The category an engine event serves, when its handler gets as far as serving.
ServedCategory(type) ==
    CASE type = "can-load" -> "load"
      [] type \in {"play", "play-fail"} -> "play"
      [] type = "pause" -> "pause"
      [] type = "volume-change" -> "volume"
      [] type = "seeking" -> "seeking"
      [] type = "seeked" -> "seeked"
      [] type = "fullscreen-change" -> "fullscreen"
      [] OTHER -> ""

\* The engine events whose handler serves its category whatever the state.
AlwaysServing == {"can-load", "play-fail", "volume-change", "seeking", "fullscreen-change"}

\* C19: an engine event that serves a category whose slot is empty gets no request
\* event attached and leaves the slot empty; one that serves an occupied slot gets
\* exactly the pending request event attached, once, and leaves the slot empty; so of
\* two consecutive engine events of the same kind the second gets none attached.
C19_ServeOnce ==
    [][LET c == ServedCategory(last'.op)
       IN  c # "" =>
             /\ last'.served \subseteq QueuePeek(queue, c)
             /\ QueuePeek(queue, c) = {} => last'.served = {} /\ QueuePeek(queue', c) = {}
             /\ last'.served # {} =>
                   /\ Cardinality(last'.served) = 1
                   /\ QueuePeek(queue', c) = {}
             /\ last'.op \in AlwaysServing =>
                   /\ last'.served = QueuePeek(queue, c)
                   /\ QueuePeek(queue', c) = {}
             /\ last.op = last'.op => last'.served = {}]_vars

\* C19: a pause event has served the pending pause request, and the slot is empty.
C19_Witness ==
    /\ last.op = "pause"
    /\ \E e \in last.served : e.type = "media-pause-request"
    /\ QueuePeek(queue, "pause") = {}
    /\ media.paused

\* The step is a reset boundary: the provider detaches, a source-change that is not
\* the first of its attachment is handled, or a play fails.
ResetBoundary ==
    \/ last'.op = "detach"
    \/ last'.op = "source-change" /\ "source-change" \notin provider.owed
    \/ last'.op = "play-fail"
    \/ last'.op = "rejected" /\ last'.promise.fn = "play" /\ last'.promise.origin = "request"

\* C20 as stated: at a reset boundary every deferred action is canceled: no
\* animation-frame loop callback, no one-tick tracking reset, no waiting debounce and
\* no idle timeout is pending after it; so that a deferred action that runs next
\* after a boundary (it can only have been scheduled before it) changes neither
\* MediaState nor the replay and looping flags nor the tracked events.
C20_DeferredCanceledAtBoundary ==
    [][/\ ResetBoundary =>
             /\ frames' = 0
             /\ sm'.resetTimers = 0
             /\ ~sm'.waitingTimer
             /\ ~user'.timer
       /\ (/\ last'.op \in {"animation-frame", "deferred-reset", "fire-waiting", "idle-timeout"}
           /\ last.op \in {"detach", "play-fail"}) =>
             /\ media' = media
             /\ isReplay' = isReplay
             /\ isLooping' = isLooping
             /\ sm'.trackedEvents = sm.trackedEvents]_vars

\* A play or pause request has reached its handler and called the provider while the
\* call of an earlier request of its category was still in flight.
SecondRequestInFlight(type, fn) ==
    /\ last'.op = type
    /\ last'.req # 0
    /\ Call(fn, 0) \in last'.calls
    /\ \E p \in pending : p.fn = fn /\ p.origin = "request"

\* C21: when a play (pause) request is accepted while the play() (pause()) call of an
\* earlier request is still in flight, its record replaces the one in the slot and the
\* earlier call stays in flight beside the new one; and the outcome of a call is
\* matched against whichever record occupies the slot when it arrives: a rejected
\* pause() empties the pause slot, a rejected play() and a play or pause event that is
\* not suppressed serve the record in the slot, whatever request the call was made for.
C21_StaleCallMatchesOccupant ==
    [][/\ SecondRequestInFlight("media-play-request", "play") =>
             /\ QueuePeek(queue', "play") = {Request(last'.op, last'.req, 0, "")}
             /\ pending \subseteq pending'
             /\ last'.calls = {Call("play", 0)}
       /\ SecondRequestInFlight("media-pause-request", "pause") =>
             /\ QueuePeek(queue', "pause") = {Request(last'.op, last'.req, 0, "")}
             /\ pending \subseteq pending'
             /\ last'.calls = {Call("pause", 0)}
       /\ RequestCallRejected("pause")' => QueuePeek(queue', "pause") = {}
       /\ RequestCallRejected("play")' =>
             /\ last'.served = QueuePeek(queue, "play")
             /\ QueuePeek(queue', "play") = {}
       /\ (last'.op = "pause" /\ ~isLooping) =>
             /\ last'.served = QueuePeek(queue, "pause")
             /\ QueuePeek(queue', "pause") = {}
       /\ (last'.op = "play" /\ ~isLooping /\ media.paused) =>
             /\ last'.served = QueuePeek(queue, "play")
             /\ QueuePeek(queue', "play") = {}]_vars

\* C21: the pause() call of the first of two pause requests has been rejected while
\* the call of the second is still in flight; the slot, which held the second
\* request's record, is empty.
C21_Witness ==
    /\ RequestCallRejected("pause")
    /\ last.promise.req = 1
    /\ Promise("pause", 2, "request", "") \in pending
    /\ QueuePeek(queue, "pause") = {}
    /\ ~media.paused

\* C22: a play signal handled while the looping flag is set or while paused is already
\* false is suppressed: MediaState is unchanged, the pending play request is not served
\* (the queue is unchanged), the replay flag is left as it is, and nothing reaches the
\* listeners downstream, neither the play event nor a replay notification.
C22_RedundantPlaySuppressed ==
    [][(last'.op = "play" /\ (isLooping \/ ~media.paused)) =>
          /\ media' = media
          /\ queue' = queue
          /\ last'.served = {}
          /\ isReplay' = isReplay
          /\ last'.emits = <<>>]_vars

\* C22: the play event of a loop's forced play has been handled under the looping flag
\* while a play request was pending: the record is still in its slot, the media still
\* paused.
C22_Witness ==
    /\ last.op = "play"
    /\ isLooping
    /\ isReplay
    /\ media.paused
    /\ last.emits = <<>>
    /\ \E e \in QueuePeek(queue, "play") : e.type = "media-play-request"

\* The replay notifications among those of the last operation.
Replays(emits) == {i \in 1..Len(emits) : emits[i].type = "replay"}

\* C23: a play signal that is not suppressed (the looping flag is clear and paused is
\* true) emits one replay notification when ended is true or the replay flag is set as
\* it arrives, and none otherwise; after it ended and the replay flag are false. The
\* replay flag is set only by a seek request (which sets it when ended is true) and by
\* the callback of a loop request.
C23_ReplayOncePerTransition ==
    [][/\ (last'.op = "play" /\ ~isLooping /\ media.paused) =>
             /\ Cardinality(Replays(last'.emits)) = IF media.ended \/ isReplay THEN 1 ELSE 0
             /\ ~media'.ended
             /\ ~isReplay'
       /\ (last'.op = "media-seek-request" /\ last'.req # 0 /\ media.ended) => isReplay'
       /\ (isReplay' /\ ~isReplay) =>
             \/ last'.op = "media-seek-request" /\ media.ended
             \/ last'.op = "animation-frame"]_vars

\* C23: a play event has served a play request and emitted a replay after a seek to the
\* start: the seeking and seeked events are still tracked and the replay flag is clear
\* again.
C23_Witness ==
    /\ last.op = "play"
    /\ Cardinality(Replays(last.emits)) = 1
    /\ \E e \in last.served : e.type = "media-play-request"
    /\ {"seeking", "seeked"} \subseteq sm.trackedEvents
    /\ media.duration = 1000
    /\ media.currentTime = 0
    /\ ~media.seeking
    /\ ~media.ended
    /\ ~isReplay

\* The started notifications among those of the last operation.
Starts(emits) == {i \in 1..Len(emits) : emits[i].type = "started"}

\* C24 as stated: for each source the started notification is emitted once, by the
\* first playing event handled for it: a playing event that finds started false sets
\* it and emits started, one that finds it true emits none; nothing but a playing
\* event emits started; and started stays true until the session is reset for a new
\* source or the provider detaches.
C24_StartedOncePerSource ==
    [][/\ (last'.op = "playing" /\ ~media.started) =>
             /\ media'.started
             /\ Cardinality(Starts(last'.emits)) = 1
       /\ (last'.op = "playing" /\ media.started) =>
             /\ media'.started
             /\ Starts(last'.emits) = {}
       /\ last'.op # "playing" => Starts(last'.emits) = {}
       /\ (media.started /\ ~media'.started) => last'.op \in {"source-change", "detach"}]_vars

\* The notifications of the given types among those of the last operation.
Notified(emits, types) == {i \in 1..Len(emits) : emits[i].type \in types}

C26_WaitingSuppressedWhileSeeking ==
    [][(last'.op = "waiting" /\ isSeeking) =>
          /\ media' = media
          /\ sm'.waitingTimer = sm.waitingTimer
          /\ sm'.lastWaitingEvent = sm.lastWaitingEvent
          /\ Notified(last'.emits, {"waiting"}) = {}]_vars

\* C27: a seeked event handled while a seeking request is pending is suppressed:
\* seeking is true after it and no other field of MediaState changes (currentTime in
\* particular), the queue is unchanged and nothing is served, and the event goes no
\* further. Otherwise, when seeking is true, the event sets seeking=false and
\* currentTime to its time, clears ended unless its time is the duration, serves the
\* seeked slot and goes on downstream.
C27_SeekedBranches ==
    [][/\ (last'.op = "seeked" /\ isSeeking) =>
             /\ media' = [media EXCEPT !.seeking = TRUE]
             /\ queue' = queue
             /\ last'.served = {}
             /\ last'.emits = <<>>
       /\ (last'.op = "seeked" /\ ~isSeeking /\ media.seeking) =>
             /\ ~media'.seeking
             /\ media'.currentTime = last'.detail.num
             /\ media'.ended = (media.ended /\ last'.detail.num = media.duration)
             /\ last'.served = QueuePeek(queue, "seeked")
             /\ QueuePeek(queue', "seeked") = {}
             /\ last'.emits = <<Notification("seeked", "")>>]_vars

\* C27: the seeked event of a seek request made after the end has been handled: it
\* served the request, seeking is false, the time is the event's (the start) and
\* ended is clear.
C27_Witness ==
    /\ last.op = "seeked"
    /\ \E e \in last.served : e.type = "media-seek-request"
    /\ isReplay
    /\ ~media.seeking
    /\ last.detail.num = 0
    /\ media.currentTime = 0
    /\ media.duration = 1000
    /\ ~media.ended
    /\ QueuePeek(queue, "seeked") = {}

\* The provider events of the tier that can-play unlocks.
PlaybackTier ==
    {"autoplay-fail", "pause", "play", "play-fail", "playing", "time-update",
     "volume-change", "seeking", "seeked", "waiting", "ended"}

\* C28 as stated: a playback-tier event of the provider changes MediaState only after
\* a can-play has been handled for the current source (canPlay, which the reset for a
\* new source clears, is true); and a source-change that is not the first of its
\* attachment disposes of the load-start and can-play listener groups, so that they
\* are attached again by the load-start and the can-play of the new source.
C28_TiersRegatedPerSource ==
    [][/\ (last'.op \in PlaybackTier /\ media' # media) => media.canPlay
       /\ (last'.op = "source-change" /\ "source-change" \notin provider.owed) =>
             /\ ~sm'.attachedLoadStartListeners
             /\ ~sm'.attachedCanPlayListeners]_vars

\* C29 as stated: loop state never sticks: once every call has been answered and
\* nothing is left to run after a loop request, the looping flag is false again (and
\* with it the replay flag the callback set), whatever the state the animation-frame
\* callback found; and while the looping flag is clear a pause or ended event of the
\* engine is reflected in MediaState.
C29_LoopStateNeverSticks ==
    [][/\ Quiescent' => ~isLooping'
       /\ (last'.op \in {"pause", "ended"} /\ ~isLooping) =>
             /\ media'.paused
             /\ ~media'.playing
             /\ last'.op = "ended" => media'.ended]_vars

\* A fullscreen request has reached its handler, its resolved target supports
\* fullscreen, and the target is already in the state the request asks for.
FullscreenAlreadyHolds ==
    /\ last'.op \in FullscreenRequestTypes
    /\ last'.req # 0
    /\ FullscreenSupported(Cur, last'.target, last'.env)
    /\ FullscreenActive(Cur, FullscreenTarget(last'.target, last'.env))
          = (last'.op = "media-enter-fullscreen-request")

\* C30 as stated: an enter-fullscreen request while the resolved target is already
\* active, and an exit-fullscreen request while it is not, is a silent no-op: the
\* request's record is not in the fullscreen slot afterwards (the queue is unchanged),
\* neither enter() or exit() nor the orientation lock or unlock is called or left
\* awaited, and nothing is notified.
C30_FullscreenNoOp ==
    [][FullscreenAlreadyHolds =>
          /\ queue' = queue
          /\ \A e \in QueuePeek(queue', "fullscreen") : e.id # last'.req
          /\ last'.calls = {}
          /\ pending' = pending
          /\ last'.emits = <<>>]_vars

\* C31 as stated: while idling is true and neither the media nor the idle tracking is
\* paused, a qualifying input makes idling false and one user-idle-change notification
\* is dispatched, with the detail false and that input as its trigger event; idling
\* turns false in no other step than the handling of a qualifying input; and a
\* notification with the detail true carries no trigger event.
C31_ActiveOnInput ==
    [][/\ (/\ last'.op = "idle-input"
           /\ user.connected /\ user.idling
           /\ ~media.paused /\ ~user.paused) =>
             /\ ~user'.idling
             /\ last'.idleChanges = <<"false">>
             /\ last'.idleTriggers = <<last'.detail.err>>
       /\ (user.idling /\ ~user'.idling) => last'.op = "idle-input"
       /\ \A i \in 1..Len(last'.idleChanges) :
             last'.idleChanges[i] = "true" => last'.idleTriggers[i] = ""]_vars

\* The notifications of a step that replay a content snapshot into MediaState.
SnapshotReplays(emits) == Notified(emits, {"time-update"})

\* C32 as stated: the content position and the played ranges are remembered only when
\* a linear ad starts, and what is remembered is replayed into MediaState once, when
\* that ad completes or is skipped: the ad complete or ad skip of the running linear ad
\* replays it with one time-update notification, and an ad complete or ad skip that
\* arrives when no linear ad is running (the snapshot has been replayed already: a
\* complete after a skip, or the end of a further ad of the break) replays nothing and
\* leaves currentTime and played as they are.
C32_SnapshotReplayedOnce ==
    [][/\ ~LinearAdStarted =>
             /\ ads'.previousPlaybackPosition = ads.previousPlaybackPosition
             /\ ads'.previousPlayedTimeranges = ads.previousPlayedTimeranges
       /\ (last'.op \in {"adComplete", "adSkip"} /\ ads.running) =>
             Cardinality(SnapshotReplays(last'.emits)) = 1
       /\ (/\ last'.op \in {"adComplete", "adSkip"}
           /\ ~ads.running
           /\ ads.previousPlayedTimeranges # Null) =>
             /\ SnapshotReplays(last'.emits) = {}
             /\ media'.currentTime = media.currentTime
             /\ media'.played = media.played]_vars

\* C33 as stated: a non-linear ad only marks the non-linear flag. Its start sets the
\* flag, notifies nothing and leaves MediaState as it is; and its completion (an ad
\* complete or ad skip with the flag set and no linear ad running) forges no
\* duration-change, play or time-update notification and leaves adStarted,
\* currentTime, played and duration as they are.
C33_NonLinearAdLeavesContent ==
    [][/\ (last'.op = "adStart" /\ ~last'.detail.flag) =>
             /\ ads'.playingNonLinear
             /\ last'.emits = <<>>
             /\ media' = media
       /\ (/\ last'.op \in {"adComplete", "adSkip"}
           /\ ads.playingNonLinear
           /\ ~ads.running) =>
             /\ Notified(last'.emits, {"duration-change", "play", "time-update"}) = {}
             /\ media'.adStarted = media.adStarted
             /\ media'.currentTime = media.currentTime
             /\ media'.played = media.played
             /\ media'.duration = media.duration]_vars

\* C34 as stated: when the running linear ad completes or is skipped, MediaState's
\* duration is afterwards the duration the content had as the ad started, whatever
\* duration the ad reported for itself.
C34_DurationRestored ==
    [][(last'.op \in {"adComplete", "adSkip"} /\ ads.running) =>
          media'.duration = ads.contentDuration]_vars

\* The calls of a step that are made on a destroyed ads loader or manager.
OnDestroyed(calls) == {c \in calls : c.arg = "destroyed"}

\* C35 as stated: an error of the ads loader destroys the loader and rejects the
\* ad-load promise if it is pending; an error of the ads manager destroys the manager;
\* both leave MediaState as it is; and a play() of the ads controller called after
\* either is settled at once (it does not stay awaiting the ad-load promise) and calls
\* nothing on a destroyed loader or manager.
C35_AdErrorsContained ==
    [][/\ last'.op = "ads-loader-error" =>
             /\ ads'.loader = "destroyed"
             /\ (ads.loading = "pending" => ads'.loading = "rejected")
             /\ media' = media
       /\ last'.op = "ads-manager-error" =>
             /\ ads'.manager = "destroyed"
             /\ media' = media
       /\ (last'.op = "ads-play" /\ "destroyed" \in {ads.loader, ads.manager}) =>
             /\ ads'.awaiting = 0
             /\ OnDestroyed(last'.calls) = {}]_vars

\* C36 as stated: when the running linear ad completes or is skipped the ad session is
\* inactive again, adStarted being false; so a play() of the ads controller that finds
\* the ads loaded, the manager in place and no linear ad running starts the manager
\* for a new ad instead of resuming.
C36_AdSessionEnds ==
    [][/\ (last'.op \in {"adComplete", "adSkip"} /\ ads.running) => ~media'.adStarted
       /\ (/\ last'.op = "ads-play"
           /\ ads.loading = "resolved"
           /\ ads.manager = "live"
           /\ ~ads.running) =>
             Call("adsManager.start", "live") \in last'.calls]_vars

\* C37 as stated: in every reachable MediaState waiting implies that playing is false.
C37_WaitingExcludesPlaying == media.waiting => ~media.playing

\* C38 as stated: whenever adsLoaded is true an ads manager exists, and a play() of the
\* ads controller that has got past the ad-load promise with adsLoaded true does not
\* fail for want of a manager (the TypeError of calling init on none).
C38_LoadedImpliesManager ==
    /\ ads.adsLoaded => ads.manager # "none"
    /\ (last.op \in {"ads-play", "ads-manager-loaded"} /\ ads.adsLoaded) =>
          last.detail.err # "TypeError"

\* An enter() of a fullscreen adapter is in flight.
EnterInProgress == \E p \in pending : p.fn = "fullscreen.enter"

\* C39 as stated: the orientation lock is held only while fullscreen is active or an
\* enter is in progress. The lock is taken only on the way into an enter(); when an
\* enter() is rejected with the orientation locked, the orientation is unlocked
\* afterwards unless fullscreen is active or another enter is in progress; and when an
\* exit() is fulfilled the orientation is unlocked afterwards, unless another enter is
\* in progress.
C39_LockOnlyWhileFullscreen ==
    [][/\ (~fs.locked /\ fs'.locked) => EnterInProgress'
       /\ (/\ last'.op = "rejected"
           /\ last'.promise.fn = "fullscreen.enter"
           /\ fs.locked) =>
             \/ ~fs'.locked
             \/ fs'.media \/ fs'.provider
             \/ EnterInProgress'
       /\ (last'.op = "fulfilled" /\ last'.promise.fn = "fullscreen.exit") =>
             ~fs'.locked \/ EnterInProgress']_vars

\* C40 as stated: a disconnect callback detaches only the provider that registered it.
\* When the callback of a provider runs while another provider is the controller's
\* media provider, that other provider is the media provider afterwards and still
\* holds the controller's context record; and a request event that reaches the
\* controller while a connected provider holds the controller's context record is
\* forwarded to a provider.
C40_DisconnectDetachesOwnProvider ==
    [][/\ (/\ last'.op = "media-provider-disconnect"
           /\ controller.mediaProvider \in ProviderElements \ {last'.detail.err}) =>
             /\ controller'.mediaProvider = controller.mediaProvider
             /\ controller'.context[controller.mediaProvider] = "controller"
       /\ (/\ last'.op \in ControllerRequestTypes
           /\ \E p \in controller.connected : controller.context[p] = "controller") =>
             last'.calls # {}]_vars

====
